---- MODULE Spec2Model ----
(***************************************************************************)
(* docusearch: the in-memory document store (pkg/storage), its trie with   *)
(* embedded postings (pkg/trie) and its forward index (pkg/index).         *)
(*                                                                         *)
(* A Go string is modelled as a sequence of bytes, each byte a one-element *)
(* name ("a", " ", "xFF", ...).  A Go map is a TLA+ function; where the    *)
(* code ranges over a map, the iteration order is an explicit argument of  *)
(* the operator and the actions choose it freely.  A float64 score is the  *)
(* exact rational [num, den]; math.Log2 is a fixed-point table.            *)
(***************************************************************************)
EXTENDS Integers, Sequences, FiniteSets, TLC

(***************************************************************************)
(* Bounds of the model                                                     *)
(***************************************************************************)
\* how many of the texts of ContentList callers pass to AddDocument
NumContents == 4
\* how many documents the store holds at most
MaxDocs == 2
\* how many of the queries of QueryList / PrefixList callers ask
NumQueries == 3
\* topK ranges over -1 .. MaxTopK
MaxTopK == 2
\* the longest text over TextAlphabet that is tokenized
MaxTextLen == 3

(***************************************************************************)
(* Bytes and strings                                                       *)
(***************************************************************************)
LowerLetters == {"a", "b", "c", "d", "e", "i", "k", "p", "r", "s", "t"}
UpperLetters == {"A", "B", "C", "D", "E", "I", "K", "P", "R", "S", "T"}
Digits == {"1"}
\* the three bytes of the UTF-8 encoding of U+FFFD, the replacement rune
ReplacementChar == <<"xEF", "xBF", "xBD">>

\* [a-zA-Z] of the tokenizer's regular expression
IsLetter(b) == b \in LowerLetters \cup UpperLetters

\* \w of RE2, which decides the ASCII word boundary \b: [0-9A-Za-z_]
IsWordChar(b) == IsLetter(b) \/ b \in Digits \/ b = "_"

IsASCII(b) == b \notin {"xFF", "xEF", "xBF", "xBD"}

\* the lower-casing of a byte with a slip: the letter case is kept
ToLowerByte_KeepsCase(b) == b

ToLowerByte(b) ==
    CASE b = "A" -> "a"
      [] b = "B" -> "b"
      [] b = "C" -> "c"
      [] b = "D" -> "d"
      [] b = "E" -> "e"
      [] b = "I" -> "i"
      [] b = "K" -> "k"
      [] b = "P" -> "p"
      [] b = "R" -> "r"
      [] b = "S" -> "s"
      [] b = "T" -> "t"
      [] OTHER -> b

\* Does a valid multi-byte rune start at s[i]?  Of the bytes of this model
\* only the sequence EF BF BD decodes to a rune.
ValidRuneAt(s, i) == i + 2 <= Len(s) /\ SubSeq(s, i, i + 2) = ReplacementChar

\* What strings.Map(unicode.ToLower, s) writes for the byte s[i]: nothing
\* for a byte inside a rune that started before it, U+FFFD for an invalid
\* byte, the lower-cased rune otherwise.  EF is the first byte of no other
\* rune's tail, so a valid rune at i - 1 or i - 2 is one the decoder reads.
LowerRune(s, i) ==
    IF (i >= 2 /\ ValidRuneAt(s, i - 1)) \/ (i >= 3 /\ ValidRuneAt(s, i - 2)) THEN <<>>
    ELSE IF IsASCII(s[i]) THEN <<ToLowerByte(s[i])>>
    ELSE ReplacementChar

\* strings.Map(unicode.ToLower, s) over the bytes lo .. hi, written back in
\* order
RECURSIVE MapToLowerBetween(_, _, _)
MapToLowerBetween(s, lo, hi) ==
    IF lo > hi THEN <<>>
    ELSE IF lo = hi THEN LowerRune(s, lo)
    ELSE MapToLowerBetween(s, lo, (lo + hi) \div 2)
         \o MapToLowerBetween(s, (lo + hi) \div 2 + 1, hi)

\* strings.ToLower
ToLower(s) == MapToLowerBetween(s, 1, Len(s))

\* json.Marshal followed by json.Unmarshal of a string value: the encoder
\* coerces the string to valid UTF-8, writing U+FFFD for each invalid byte.
RECURSIVE JSONStringFrom(_, _)
JSONStringFrom(s, i) ==
    IF i > Len(s) THEN <<>>
    ELSE IF IsASCII(s[i]) THEN <<s[i]>> \o JSONStringFrom(s, i + 1)
    ELSE IF ValidRuneAt(s, i) THEN ReplacementChar \o JSONStringFrom(s, i + 3)
    ELSE ReplacementChar \o JSONStringFrom(s, i + 1)

JSONString(s) == JSONStringFrom(s, 1)

\* strings.TrimSpace
RECURSIVE TrimLeft(_)
TrimLeft(s) == IF s # <<>> /\ Head(s) = " " THEN TrimLeft(Tail(s)) ELSE s

RECURSIVE TrimRight(_)
TrimRight(s) ==
    IF s # <<>> /\ s[Len(s)] = " " THEN TrimRight(SubSeq(s, 1, Len(s) - 1)) ELSE s

TrimSpace(s) == TrimRight(TrimLeft(s))

\* strings.HasPrefix(s[i-1:], sub), i counting from 1
HasPrefixAt(s, i, sub) ==
    i + Len(sub) - 1 <= Len(s) /\ SubSeq(s, i, i + Len(sub) - 1) = sub

\* strings.ReplaceAll(s, old, new) from byte i on, old not empty: the
\* occurrences of old are taken from the left and do not overlap
RECURSIVE ReplaceAllFrom(_, _, _, _)
ReplaceAllFrom(s, i, old, new) ==
    IF i > Len(s) THEN <<>>
    ELSE IF HasPrefixAt(s, i, old) THEN new \o ReplaceAllFrom(s, i + Len(old), old, new)
    ELSE <<s[i]>> \o ReplaceAllFrom(s, i + 1, old, new)

ReplaceAll(s, old, new) == ReplaceAllFrom(s, 1, old, new)

\* strings.HasSuffix and strings.TrimSuffix
HasSuffix(s, suffix) ==
    Len(suffix) <= Len(s) /\ SubSeq(s, Len(s) - Len(suffix) + 1, Len(s)) = suffix

TrimSuffix(s, suffix) ==
    IF HasSuffix(s, suffix) THEN SubSeq(s, 1, Len(s) - Len(suffix)) ELSE s

(***************************************************************************)
(* Go maps and map iteration                                               *)
(***************************************************************************)
\* make(map[K]V)
EmptyMap == [x \in {} |-> 0]

\* m[k] = v
MapPut(m, k, v) == [x \in DOMAIN m \cup {k} |-> IF x = k THEN v ELSE m[x]]

\* delete(m, k)
MapDelete(m, k) == [x \in DOMAIN m \ {k} |-> m[x]]

\* m[k] of a map[K]int: the zero value when the key is absent
MapGet(m, k) == IF k \in DOMAIN m THEN m[k] ELSE 0

\* the orders in which "for k := range m" can visit the key set S
RECURSIVE Orders(_)
Orders(S) ==
    IF S = {} THEN {<<>>}
    ELSE UNION {{<<x>> \o rest : rest \in Orders(S \ {x})} : x \in S}

\* one fixed order of S, where the order cannot be observed
RECURSIVE SetToSeq(_)
SetToSeq(S) ==
    IF S = {} THEN <<>>
    ELSE LET x == CHOOSE y \in S : TRUE
         IN  <<x>> \o SetToSeq(S \ {x})

\* the subsequence of seq whose elements are in S
RECURSIVE Restrict(_, _)
Restrict(seq, S) ==
    IF seq = <<>> THEN <<>>
    ELSE IF Head(seq) \in S THEN <<Head(seq)>> \o Restrict(Tail(seq), S)
    ELSE Restrict(Tail(seq), S)

Range(seq) == {seq[i] : i \in DOMAIN seq}

(***************************************************************************)
(* pkg/trie: a node is named by its path from the root; children[c] of the *)
(* node at path p is the node at path p \o <<c>>.                          *)
(***************************************************************************)
NewTrieNode ==
    [isEndOfWord |-> FALSE, word |-> <<>>,
     containingDocuments |-> {}, docToWordCount |-> EmptyMap]

\* trie.New(): the root alone
Trie_New == [p \in {<<>>} |-> NewTrieNode]

\* the nil *TrieNode
NilNode == <<"nil">>

\* node.children, as the set of map keys
Children(t, node) == {c \in LowerLetters \cup UpperLetters : Append(node, c) \in DOMAIN t}

IsPrefixOf(p, q) == Len(p) <= Len(q) /\ SubSeq(q, 1, Len(p)) = p

\* delete(node.children, char): the child and all it owns are gone
DeleteChild(t, node, char) ==
    [p \in {q \in DOMAIN t : ~IsPrefixOf(Append(node, char), q)} |-> t[p]]

RECURSIVE findNodeFrom(_, _, _)
findNodeFrom(t, node, rest) ==
    IF rest = <<>> THEN node
    ELSE IF Head(rest) \in Children(t, node)
         THEN findNodeFrom(t, Append(node, Head(rest)), Tail(rest))
         ELSE NilNode

findNode(t, prefix) == findNodeFrom(t, <<>>, prefix)

\* the loop of Insert: walk down, creating the missing children
RECURSIVE InsertWalk(_, _, _)
InsertWalk(t, node, rest) ==
    IF rest = <<>> THEN t
    ELSE LET child == Append(node, Head(rest))
             t1 == IF Head(rest) \in Children(t, node) THEN t
                   ELSE [p \in DOMAIN t \cup {child} |->
                            IF p = child THEN NewTrieNode ELSE t[p]]
         IN  InsertWalk(t1, child, Tail(rest))

\* Insert with a slip: the word is stored as typed, not lower-cased
Trie_Insert_AsTyped(t, word) ==
    LET t1 == InsertWalk(t, <<>>, word)
    IN  [t1 EXCEPT ![word].isEndOfWord = TRUE, ![word].word = word]

\* Insert with a slip: the node of the word is made anew, its postings lost
Trie_Insert_FreshNode(t, word) ==
    LET w == ToLower(word)
        t1 == InsertWalk(t, <<>>, w)
    IN  [t1 EXCEPT ![w] = [NewTrieNode EXCEPT !.isEndOfWord = TRUE, !.word = w]]

Trie_Insert(t, word) ==
    LET w == ToLower(word)
        t1 == InsertWalk(t, <<>>, w)
    IN  [t1 EXCEPT ![w].isEndOfWord = TRUE, ![w].word = w]

\* AddDocumentToWord with a slip: any node the path reaches takes the
\* posting, end of a word or not
Trie_AddDocumentToWord_AnyNode(t, word, docID, count) ==
    LET node == findNode(t, ToLower(word))
    IN  IF node # NilNode
        THEN [t EXCEPT ![node].containingDocuments = @ \cup {docID},
                       ![node].docToWordCount = MapPut(@, docID, count)]
        ELSE t

\* AddDocumentToWord with a slip: the count is added to the one already
\* there
Trie_AddDocumentToWord_Accumulates(t, word, docID, count) ==
    LET node == findNode(t, ToLower(word))
    IN  IF node # NilNode /\ t[node].isEndOfWord
        THEN [t EXCEPT ![node].containingDocuments = @ \cup {docID},
                       ![node].docToWordCount = MapPut(@, docID, MapGet(@, docID) + count)]
        ELSE t

Trie_AddDocumentToWord(t, word, docID, count) ==
    LET node == findNode(t, ToLower(word))
    IN  IF node # NilNode /\ t[node].isEndOfWord
        THEN [t EXCEPT ![node].containingDocuments = @ \cup {docID},
                       ![node].docToWordCount = MapPut(@, docID, count)]
        ELSE t

\* RemoveDocumentFromWord with a slip: the word loses all its postings
Trie_RemoveDocumentFromWord_ClearsWord(t, word, docID) ==
    LET node == findNode(t, ToLower(word))
    IN  IF node # NilNode /\ t[node].isEndOfWord /\ docID \in t[node].containingDocuments
        THEN [trie |-> [t EXCEPT ![node].containingDocuments = {},
                                 ![node].docToWordCount = EmptyMap],
              ok |-> TRUE]
        ELSE [trie |-> t, ok |-> FALSE]

\* RemoveDocumentFromWord with a slip: the document leaves the set, its
\* count stays in the map
Trie_RemoveDocumentFromWord_KeepsCount(t, word, docID) ==
    LET node == findNode(t, ToLower(word))
    IN  IF node # NilNode /\ t[node].isEndOfWord /\ docID \in t[node].containingDocuments
        THEN [trie |-> [t EXCEPT ![node].containingDocuments = @ \ {docID}],
              ok |-> TRUE]
        ELSE [trie |-> t, ok |-> FALSE]

\* the trie after RemoveDocumentFromWord and the value it returns
Trie_RemoveDocumentFromWord(t, word, docID) ==
    LET node == findNode(t, ToLower(word))
    IN  IF node # NilNode /\ t[node].isEndOfWord /\ docID \in t[node].containingDocuments
        THEN [trie |-> [t EXCEPT ![node].containingDocuments = @ \ {docID},
                                 ![node].docToWordCount = MapDelete(@, docID)],
              ok |-> TRUE]
        ELSE [trie |-> t, ok |-> FALSE]

Trie_GetDocumentsForWord(t, word) ==
    LET node == findNode(t, ToLower(word))
    IN  IF node # NilNode /\ t[node].isEndOfWord THEN t[node].docToWordCount
        ELSE EmptyMap

Trie_GetDocumentFrequency(t, word) ==
    LET node == findNode(t, ToLower(word))
    IN  IF node # NilNode /\ t[node].isEndOfWord
        THEN Cardinality(t[node].containingDocuments)
        ELSE 0

Trie_Search(t, word) ==
    LET node == findNode(t, ToLower(word))
    IN  node # NilNode /\ t[node].isEndOfWord

\* depth-first collection of the words at and below node, the children
\* visited in one fixed order
RECURSIVE collectWords(_, _)
RECURSIVE collectWordsOfChildren(_, _, _)
collectWords(t, node) ==
    (IF t[node].isEndOfWord /\ t[node].word # <<>> THEN <<t[node].word>> ELSE <<>>)
    \o collectWordsOfChildren(t, node, SetToSeq(Children(t, node)))

collectWordsOfChildren(t, node, chars) ==
    IF chars = <<>> THEN <<>>
    ELSE collectWords(t, Append(node, Head(chars)))
         \o collectWordsOfChildren(t, node, Tail(chars))

Trie_StartsWith(t, prefix) ==
    LET node == findNode(t, ToLower(prefix))
    IN  IF node = NilNode THEN <<>> ELSE collectWords(t, node)

Trie_GetAllWords(t) == collectWords(t, <<>>)

\* docCounts[docID] += count for every posting of node
RECURSIVE AddCounts(_, _, _)
AddCounts(docCounts, postings, docs) ==
    IF docs = <<>> THEN docCounts
    ELSE AddCounts(MapPut(docCounts, Head(docs),
                          MapGet(docCounts, Head(docs)) + postings[Head(docs)]),
                   postings, Tail(docs))

\* collectDocumentsFromNode with a slip: the descendants are not visited
collectDocumentsFromNode_NodeOnly(t, node, docCounts) ==
    IF t[node].isEndOfWord
    THEN AddCounts(docCounts, t[node].docToWordCount,
                   SetToSeq(DOMAIN t[node].docToWordCount))
    ELSE docCounts

RECURSIVE collectDocumentsFromNode(_, _, _)
RECURSIVE collectDocumentsFromChildren(_, _, _, _)
collectDocumentsFromNode(t, node, docCounts) ==
    LET own == IF t[node].isEndOfWord
               THEN AddCounts(docCounts, t[node].docToWordCount,
                              SetToSeq(DOMAIN t[node].docToWordCount))
               ELSE docCounts
    IN  collectDocumentsFromChildren(t, node, SetToSeq(Children(t, node)), own)

collectDocumentsFromChildren(t, node, chars, docCounts) ==
    IF chars = <<>> THEN docCounts
    ELSE collectDocumentsFromChildren(t, node, Tail(chars),
             collectDocumentsFromNode(t, Append(node, Head(chars)), docCounts))

Trie_GetDocumentsForPrefix(t, prefix) ==
    LET node == findNode(t, ToLower(prefix))
    IN  IF node = NilNode THEN EmptyMap
        ELSE collectDocumentsFromNode(t, node, EmptyMap)

\* removeHelper with a slip: after deleting the child it reports "do not
\* delete me" whatever is left of the node
RECURSIVE removeHelper_NoCascade(_, _, _, _)
removeHelper_NoCascade(t, node, word, index) ==
    IF index = Len(word)
    THEN IF ~t[node].isEndOfWord THEN [trie |-> t, ok |-> FALSE]
         ELSE [trie |-> [t EXCEPT ![node].isEndOfWord = FALSE, ![node].word = <<>>],
               ok |-> Children(t, node) = {}]
    ELSE LET char == word[index + 1]
         IN  IF char \notin Children(t, node) THEN [trie |-> t, ok |-> FALSE]
             ELSE LET r == removeHelper_NoCascade(t, Append(node, char), word, index + 1)
                  IN  IF r.ok
                      THEN [trie |-> DeleteChild(r.trie, node, char), ok |-> FALSE]
                      ELSE [trie |-> r.trie, ok |-> FALSE]

\* removeHelper: the trie afterwards and the shouldDelete flag it returns
RECURSIVE removeHelper(_, _, _, _)
removeHelper(t, node, word, index) ==
    IF index = Len(word)
    THEN IF ~t[node].isEndOfWord THEN [trie |-> t, ok |-> FALSE]
         ELSE [trie |-> [t EXCEPT ![node].isEndOfWord = FALSE, ![node].word = <<>>],
               ok |-> Children(t, node) = {}]
    ELSE LET char == word[index + 1]
         IN  IF char \notin Children(t, node) THEN [trie |-> t, ok |-> FALSE]
             ELSE LET r == removeHelper(t, Append(node, char), word, index + 1)
                  IN  IF r.ok
                      THEN LET t1 == DeleteChild(r.trie, node, char)
                           IN  [trie |-> t1,
                                ok |-> Children(t1, node) = {} /\ ~t1[node].isEndOfWord]
                      ELSE [trie |-> r.trie, ok |-> FALSE]

\* Remove with a slip: a word is removed whether or not documents contain it
Trie_Remove_IgnoresPostings(t, word) ==
    LET node == findNode(t, ToLower(word))
    IN  IF node # NilNode /\ t[node].isEndOfWord
        THEN removeHelper(t, <<>>, ToLower(word), 0)
        ELSE [trie |-> t, ok |-> FALSE]

\* Remove: the trie afterwards and the value it returns
Trie_Remove(t, word) ==
    LET node == findNode(t, ToLower(word))
    IN  IF node # NilNode /\ t[node].isEndOfWord /\ t[node].containingDocuments = {}
        THEN removeHelper(t, <<>>, ToLower(word), 0)
        ELSE [trie |-> t, ok |-> FALSE]

\* the first loop of CleanupEmptyWords over the slice allWords
RECURSIVE WordsToRemove(_, _)
WordsToRemove(t, allWords) ==
    IF allWords = <<>> THEN <<>>
    ELSE LET node == findNode(t, Head(allWords))
         IN  (IF node # NilNode /\ t[node].containingDocuments = {}
              THEN <<Head(allWords)>> ELSE <<>>)
             \o WordsToRemove(t, Tail(allWords))

RECURSIVE RemoveAll(_, _)
RemoveAll(t, words) ==
    IF words = <<>> THEN t
    ELSE RemoveAll(Trie_Remove(t, Head(words)).trie, Tail(words))

\* CleanupEmptyWords with a slip: nothing is removed
Trie_CleanupEmptyWords_Nothing(t, allWords) == t

\* CleanupEmptyWords, allWords being what GetAllWords returned: the stored
\* words in the order the maps happened to be visited
Trie_CleanupEmptyWords(t, allWords) == RemoveAll(t, WordsToRemove(t, allWords))

(***************************************************************************)
(* pkg/index: the forward index                                            *)
(***************************************************************************)
NewForwardIndex == [docIDToDocument |-> EmptyMap, docIDToDocLength |-> EmptyMap]

NewForwardIndexWithData(documents, docLengths) ==
    [docIDToDocument |-> documents, docIDToDocLength |-> docLengths]

\* totalWords += count over the entries of wordCounts
RECURSIVE SumCounts(_, _)
SumCounts(wordCounts, words) ==
    IF words = <<>> THEN 0
    ELSE wordCounts[Head(words)] + SumCounts(wordCounts, Tail(words))

\* ForwardIndex.AddDocument with a slip: the length is the number of
\* distinct words, not the sum of the counts
ForwardIndex_AddDocument_CountsDistinct(fi, docID, wordCounts) ==
    [docIDToDocument |-> MapPut(fi.docIDToDocument, docID,
                                [w \in DOMAIN wordCounts |-> wordCounts[w]]),
     docIDToDocLength |-> MapPut(fi.docIDToDocLength, docID, Cardinality(DOMAIN wordCounts))]

\* ForwardIndex.AddDocument with a slip: the counts are written into the
\* map the document already has
ForwardIndex_AddDocument_Merges(fi, docID, wordCounts) ==
    LET old == IF docID \in DOMAIN fi.docIDToDocument THEN fi.docIDToDocument[docID]
               ELSE EmptyMap
        docWordCounts == [w \in DOMAIN old \cup DOMAIN wordCounts |->
                             IF w \in DOMAIN wordCounts THEN wordCounts[w] ELSE old[w]]
        totalWords == SumCounts(wordCounts, SetToSeq(DOMAIN wordCounts))
    IN  [docIDToDocument |-> MapPut(fi.docIDToDocument, docID, docWordCounts),
         docIDToDocLength |-> MapPut(fi.docIDToDocLength, docID, totalWords)]

ForwardIndex_AddDocument(fi, docID, wordCounts) ==
    LET docWordCounts == [w \in DOMAIN wordCounts |-> wordCounts[w]]
        totalWords == SumCounts(wordCounts, SetToSeq(DOMAIN wordCounts))
    IN  [docIDToDocument |-> MapPut(fi.docIDToDocument, docID, docWordCounts),
         docIDToDocLength |-> MapPut(fi.docIDToDocLength, docID, totalWords)]

ForwardIndex_GetWordCount(fi, docID, word) ==
    IF docID \in DOMAIN fi.docIDToDocument
    THEN MapGet(fi.docIDToDocument[docID], ToLower(word))
    ELSE 0

ForwardIndex_GetDocumentWords(fi, docID) ==
    IF docID \in DOMAIN fi.docIDToDocument THEN fi.docIDToDocument[docID]
    ELSE EmptyMap

ForwardIndex_GetDocumentLength(fi, docID) ==
    IF docID \in DOMAIN fi.docIDToDocLength THEN fi.docIDToDocLength[docID] ELSE 0

\* the index after RemoveDocument and the value it returns
ForwardIndex_RemoveDocument(fi, docID) ==
    IF docID \in DOMAIN fi.docIDToDocument
    THEN [index |-> [docIDToDocument |-> MapDelete(fi.docIDToDocument, docID),
                     docIDToDocLength |-> MapDelete(fi.docIDToDocLength, docID)],
          ok |-> TRUE]
    ELSE [index |-> fi, ok |-> FALSE]

(***************************************************************************)
(* float64 values: exact rationals in lowest terms                         *)
(***************************************************************************)
RECURSIVE GCD(_, _)
GCD(a, b) == IF b = 0 THEN a ELSE GCD(b, a % b)

Abs(x) == IF x < 0 THEN -x ELSE x

\* the rational num/den (den > 0) in lowest terms
Rat(num, den) ==
    LET g == GCD(Abs(num), den)
    IN  [num |-> num \div g, den |-> den \div g]

Zero == Rat(0, 1)

RatAdd(x, y) == Rat(x.num * y.den + y.num * x.den, x.den * y.den)

RatMul(x, y) == Rat(x.num * y.num, x.den * y.den)

RatGreater(x, y) == x.num * y.den > y.num * x.den

\* the fixed-point unit of Log2Scaled (TLC's integers are 32 bits wide)
Scale == 1000

\* math.Log2(n) * Scale for the integers the model reaches;
\* Log2Scaled(a * b) = Log2Scaled(a) + Log2Scaled(b) holds in the table
Log2Scaled(n) ==
    CASE n = 1 -> 0
      [] n = 2 -> 1000
      [] n = 3 -> 1585
      [] n = 4 -> 2000
      [] n = 5 -> 2322
      [] n = 6 -> 2585
      [] n = 7 -> 2807
      [] n = 8 -> 3000

\* math.Log2(float64(n+1)/float64(df+1)) + 1
\* the idf with a slip: the "+ 1" after the logarithm is left out
IDF_WithoutOne(n, df) == Rat(Log2Scaled(n + 1) - Log2Scaled(df + 1), Scale)

IDF(n, df) == Rat(Log2Scaled(n + 1) - Log2Scaled(df + 1) + Scale, Scale)

ForwardIndex_GetTF(fi, docID, word) ==
    LET wordCount == ForwardIndex_GetWordCount(fi, docID, word)
        docLength == ForwardIndex_GetDocumentLength(fi, docID)
    IN  IF docLength > 0 THEN Rat(wordCount, docLength) ELSE Zero

(***************************************************************************)
(* pkg/storage: tokenization                                               *)
(***************************************************************************)
\* the last index of the run of letters that starts at s[i]
RECURSIVE RunEnd(_, _)
RunEnd(s, i) == IF i < Len(s) /\ IsLetter(s[i + 1]) THEN RunEnd(s, i + 1) ELSE i

\* regexp \b[a-zA-Z]+\b, FindAllString(s, -1) from byte i on: the scan
\* goes to the next letter not preceded by a word character; the match
\* takes the whole run of letters, provided no word character follows it
\* FindAllFrom with a slip: the expression is [a-zA-Z]+ without the \b
RECURSIVE FindAllFrom(_, _)
FindAllFrom_LetterRuns(s, i) ==
    IF i > Len(s) THEN <<>>
    ELSE IF IsLetter(s[i])
         THEN <<SubSeq(s, i, RunEnd(s, i))>> \o FindAllFrom(s, RunEnd(s, i) + 1)
         ELSE FindAllFrom(s, i + 1)

FindAllFrom(s, i) ==
    LET starts == {k \in i .. Len(s) : IsLetter(s[k]) /\ (k = 1 \/ ~IsWordChar(s[k - 1]))}
    IN  IF starts = {} THEN <<>>
        ELSE LET k == CHOOSE m \in starts : \A n \in starts : m <= n
                 j == RunEnd(s, k)
             IN  IF j = Len(s) \/ ~IsWordChar(s[j + 1])
                 THEN <<SubSeq(s, k, j)>> \o FindAllFrom(s, j + 1)
                 ELSE FindAllFrom(s, k + 1)

FindAllString(s) == FindAllFrom(s, 1)

\* wordCounts[word]++ for the words longer than one byte
RECURSIVE CountWords(_, _)
CountWords(words, wordCounts) ==
    IF words = <<>> THEN wordCounts
    ELSE CountWords(Tail(words),
                    IF Len(Head(words)) > 1
                    THEN MapPut(wordCounts, Head(words), MapGet(wordCounts, Head(words)) + 1)
                    ELSE wordCounts)

tokenize(text) == CountWords(FindAllString(ToLower(text)), EmptyMap)

RECURSIVE LongerThanOne(_)
LongerThanOne(words) ==
    IF words = <<>> THEN <<>>
    ELSE (IF Len(Head(words)) > 1 THEN <<Head(words)>> ELSE <<>>)
         \o LongerThanOne(Tail(words))

tokenizeQuery(text) == LongerThanOne(FindAllString(text))

(***************************************************************************)
(* pkg/storage: the store.  A store value ds is the record                 *)
(* [trie, forwardIndex, docIDToDocument, totalDocuments].                  *)
(***************************************************************************)
New ==
    [trie |-> Trie_New, forwardIndex |-> NewForwardIndex,
     docIDToDocument |-> EmptyMap, totalDocuments |-> 0]

\* IndexWords with a slip: the posting is attached before the word is
\* inserted
RECURSIVE IndexWords_AddBeforeInsert(_, _, _, _)
IndexWords_AddBeforeInsert(t, docID, wordCounts, words) ==
    IF words = <<>> THEN t
    ELSE LET word == Head(words)
             t1 == Trie_AddDocumentToWord(t, word, docID, wordCounts[word])
         IN  IndexWords_AddBeforeInsert(
                 IF ~Trie_Search(t1, word) THEN Trie_Insert(t1, word) ELSE t1,
                 docID, wordCounts, Tail(words))

\* the loop body shared by AddDocument and NewWithData, over the words in
\* the order the map was visited
RECURSIVE IndexWords(_, _, _, _)
IndexWords(t, docID, wordCounts, words) ==
    IF words = <<>> THEN t
    ELSE LET word == Head(words)
             t1 == IF ~Trie_Search(t, word) THEN Trie_Insert(t, word) ELSE t
         IN  IndexWords(Trie_AddDocumentToWord(t1, word, docID, wordCounts[word]),
                        docID, wordCounts, Tail(words))

RECURSIVE RemovePostings(_, _, _)
RemovePostings(t, docID, words) ==
    IF words = <<>> THEN t
    ELSE RemovePostings(Trie_RemoveDocumentFromWord(t, Head(words), docID).trie,
                        docID, Tail(words))

\* AddDocument with a slip: no check for an ID already in use
AddDocument_Overwrites(ds, content, docID, generated, wordOrder) ==
    LET id == IF docID = "" THEN generated ELSE docID
        wordCounts == tokenize(content)
    IN  [ds |-> [trie |-> IndexWords(ds.trie, id, wordCounts,
                                     Restrict(wordOrder, DOMAIN wordCounts)),
                 forwardIndex |-> ForwardIndex_AddDocument(ds.forwardIndex, id, wordCounts),
                 docIDToDocument |-> MapPut(ds.docIDToDocument, id, content),
                 totalDocuments |-> ds.totalDocuments + 1],
         result |-> id]

\* AddDocument(content, docID): generated is what generateDocID would return,
\* wordOrder the order in which the words of the vocabulary are visited.
\* The result is the store afterwards and the value returned, or "panic".
DocumentStorage_AddDocument(ds, content, docID, generated, wordOrder) ==
    IF docID # "" /\ docID \in DOMAIN ds.docIDToDocument
    THEN [ds |-> ds, result |-> "panic"]
    ELSE LET id == IF docID = "" THEN generated ELSE docID
             wordCounts == tokenize(content)
         IN  [ds |-> [trie |-> IndexWords(ds.trie, id, wordCounts,
                                          Restrict(wordOrder, DOMAIN wordCounts)),
                      forwardIndex |-> ForwardIndex_AddDocument(ds.forwardIndex, id, wordCounts),
                      docIDToDocument |-> MapPut(ds.docIDToDocument, id, content),
                      totalDocuments |-> ds.totalDocuments + 1],
              result |-> id]

\* RemoveDocument with a slip: the forward-index entry is left behind
RemoveDocument_KeepsForwardIndex(ds, docID, wordOrder, allWordsOrder) ==
    IF docID \notin DOMAIN ds.docIDToDocument
    THEN [ds |-> ds, result |-> FALSE]
    ELSE LET wordCounts == ForwardIndex_GetDocumentWords(ds.forwardIndex, docID)
             t1 == RemovePostings(ds.trie, docID, Restrict(wordOrder, DOMAIN wordCounts))
             allWords == Restrict(allWordsOrder, Range(Trie_GetAllWords(t1)))
         IN  [ds |-> [trie |-> Trie_CleanupEmptyWords(t1, allWords),
                      forwardIndex |-> ds.forwardIndex,
                      docIDToDocument |-> MapDelete(ds.docIDToDocument, docID),
                      totalDocuments |-> IF ds.totalDocuments > 0
                                         THEN ds.totalDocuments - 1
                                         ELSE ds.totalDocuments],
              result |-> TRUE]

\* RemoveDocument with a slip: the counter is lowered before the ID is
\* looked up, so also for an unknown ID
RemoveDocument_DecrementsAlways(ds, docID, wordOrder, allWordsOrder) ==
    LET n == IF ds.totalDocuments > 0 THEN ds.totalDocuments - 1 ELSE ds.totalDocuments
    IN  IF docID \notin DOMAIN ds.docIDToDocument
        THEN [ds |-> [ds EXCEPT !.totalDocuments = n], result |-> FALSE]
        ELSE LET wordCounts == ForwardIndex_GetDocumentWords(ds.forwardIndex, docID)
                 t1 == RemovePostings(ds.trie, docID, Restrict(wordOrder, DOMAIN wordCounts))
                 allWords == Restrict(allWordsOrder, Range(Trie_GetAllWords(t1)))
             IN  [ds |-> [trie |-> Trie_CleanupEmptyWords(t1, allWords),
                          forwardIndex |-> ForwardIndex_RemoveDocument(ds.forwardIndex, docID).index,
                          docIDToDocument |-> MapDelete(ds.docIDToDocument, docID),
                          totalDocuments |-> n],
                  result |-> TRUE]

\* RemoveDocument with a slip: the counter is not lowered
RemoveDocument_KeepsCounter(ds, docID, wordOrder, allWordsOrder) ==
    IF docID \notin DOMAIN ds.docIDToDocument
    THEN [ds |-> ds, result |-> FALSE]
    ELSE LET wordCounts == ForwardIndex_GetDocumentWords(ds.forwardIndex, docID)
             t1 == RemovePostings(ds.trie, docID, Restrict(wordOrder, DOMAIN wordCounts))
             allWords == Restrict(allWordsOrder, Range(Trie_GetAllWords(t1)))
         IN  [ds |-> [trie |-> Trie_CleanupEmptyWords(t1, allWords),
                      forwardIndex |-> ForwardIndex_RemoveDocument(ds.forwardIndex, docID).index,
                      docIDToDocument |-> MapDelete(ds.docIDToDocument, docID),
                      totalDocuments |-> ds.totalDocuments],
              result |-> TRUE]

\* RemoveDocument(docID): wordOrder orders the loop over the document's
\* words, allWordsOrder the slice GetAllWords hands to CleanupEmptyWords
DocumentStorage_RemoveDocument(ds, docID, wordOrder, allWordsOrder) ==
    IF docID \notin DOMAIN ds.docIDToDocument
    THEN [ds |-> ds, result |-> FALSE]
    ELSE LET wordCounts == ForwardIndex_GetDocumentWords(ds.forwardIndex, docID)
             t1 == RemovePostings(ds.trie, docID, Restrict(wordOrder, DOMAIN wordCounts))
             allWords == Restrict(allWordsOrder, Range(Trie_GetAllWords(t1)))
         IN  [ds |-> [trie |-> Trie_CleanupEmptyWords(t1, allWords),
                      forwardIndex |-> ForwardIndex_RemoveDocument(ds.forwardIndex, docID).index,
                      docIDToDocument |-> MapDelete(ds.docIDToDocument, docID),
                      totalDocuments |-> IF ds.totalDocuments > 0
                                         THEN ds.totalDocuments - 1
                                         ELSE ds.totalDocuments],
              result |-> TRUE]

\* calculateTFIDF with a slip: the term frequency is left out of the product
calculateTFIDF_IgnoresTF(ds, docID, word) ==
    LET docFreq == Trie_GetDocumentFrequency(ds.trie, word)
    IN  IF docFreq = 0 THEN Zero
        ELSE IDF(ds.totalDocuments, docFreq)

calculateTFIDF(ds, docID, word) ==
    LET tf == ForwardIndex_GetTF(ds.forwardIndex, docID, word)
        docFreq == Trie_GetDocumentFrequency(ds.trie, word)
    IN  IF docFreq = 0 THEN Zero
        ELSE RatMul(tf, IDF(ds.totalDocuments, docFreq))

\* strings.Index: the 0-based offset of the first occurrence, or -1
Index(s, sub) ==
    LET hits == {i \in 0 .. (Len(s) - Len(sub)) : SubSeq(s, i + 1, i + Len(sub)) = sub}
    IN  IF hits = {} THEN -1 ELSE CHOOSE i \in hits : \A j \in hits : i <= j

RECURSIVE FirstPos(_, _, _)
FirstPos(contentLower, queryWords, firstPos) ==
    IF queryWords = <<>> THEN firstPos
    ELSE LET pos == Index(contentLower, Head(queryWords))
         IN  FirstPos(contentLower, Tail(queryWords),
                      IF pos # -1 /\ pos < firstPos THEN pos ELSE firstPos)

\* the bytes the preview window reaches back before the first match
PreviewLead == 50

\* maxLength as Search and SearchByPrefix pass it
PreviewMaxLength == 200

Ellipsis == <<".", ".", ".">>

getContentPreview(content, queryWords, maxLength) ==
    IF Len(content) <= maxLength THEN content
    ELSE LET firstPos == FirstPos(ToLower(content), queryWords, Len(content))
             start == IF firstPos < Len(content) /\ firstPos - PreviewLead > 0
                      THEN firstPos - PreviewLead ELSE 0
             end == IF start + maxLength > Len(content) THEN Len(content)
                    ELSE start + maxLength
         IN  (IF start > 0 THEN Ellipsis ELSE <<>>)
             \o SubSeq(content, start + 1, end)
             \o (IF end < Len(content) THEN Ellipsis ELSE <<>>)

\* docScores[docID] += tfIdf for every document of the posting map
RECURSIVE AddScores(_, _, _, _)
AddScores(ds, docScores, word, docs) ==
    IF docs = <<>> THEN docScores
    ELSE LET docID == Head(docs)
             old == IF docID \in DOMAIN docScores THEN docScores[docID] ELSE Zero
         IN  AddScores(ds, MapPut(docScores, docID, RatAdd(old, calculateTFIDF(ds, docID, word))),
                       word, Tail(docs))

\* ScoreQuery with a slip: docScores is made anew for every query word, so
\* only the last word counts
RECURSIVE ScoreQuery_LastWordOnly(_, _, _)
ScoreQuery_LastWordOnly(ds, queryWords, docScores) ==
    IF queryWords = <<>> THEN docScores
    ELSE ScoreQuery_LastWordOnly(ds, Tail(queryWords),
             AddScores(ds, EmptyMap, Head(queryWords),
                       SetToSeq(DOMAIN Trie_GetDocumentsForWord(ds.trie, Head(queryWords)))))

RECURSIVE ScoreQuery(_, _, _)
ScoreQuery(ds, queryWords, docScores) ==
    IF queryWords = <<>> THEN docScores
    ELSE ScoreQuery(ds, Tail(queryWords),
                    AddScores(ds, docScores, Head(queryWords),
                              SetToSeq(DOMAIN Trie_GetDocumentsForWord(ds.trie, Head(queryWords)))))

\* sort.Slice with less(i, j) = score[i] > score[j]: for slices this short
\* the library's insertion sort.  SinkDown is its inner loop, moving the
\* element at index j towards the front while it is greater than the one
\* before it.
\* SinkDown with a slip: the comparison is the wrong way round
RECURSIVE SinkDown_Ascending(_, _)
SinkDown_Ascending(docs, j) ==
    IF j > 1 /\ RatGreater(docs[j - 1].score, docs[j].score)
    THEN SinkDown_Ascending([docs EXCEPT ![j] = docs[j - 1], ![j - 1] = docs[j]], j - 1)
    ELSE docs

RECURSIVE SinkDown(_, _)
SinkDown(docs, j) ==
    IF j > 1 /\ RatGreater(docs[j].score, docs[j - 1].score)
    THEN SinkDown([docs EXCEPT ![j] = docs[j - 1], ![j - 1] = docs[j]], j - 1)
    ELSE docs

RECURSIVE InsertionSort(_, _)
InsertionSort(docs, i) ==
    IF i > Len(docs) THEN docs ELSE InsertionSort(SinkDown(docs, i), i + 1)

SortByScore(docs) == InsertionSort(docs, 2)

\* sortedDocs: the entries of docScores in map order, then sorted
SortedDocs(docScores, docOrder) ==
    LET ids == Restrict(docOrder, DOMAIN docScores)
    IN  SortByScore([i \in 1 .. Len(ids) |-> [docID |-> ids[i], score |-> docScores[ids[i]]]])

\* the loop that builds the results: the first limit entries, each with
\* its preview
BuildResults(ds, sortedDocs, topK, queryWords) ==
    LET limit == IF topK > Len(sortedDocs) THEN Len(sortedDocs) ELSE topK
    IN  [i \in 1 .. limit |->
            [DocID |-> sortedDocs[i].docID,
             Score |-> sortedDocs[i].score,
             Preview |-> getContentPreview(
                             IF sortedDocs[i].docID \in DOMAIN ds.docIDToDocument
                             THEN ds.docIDToDocument[sortedDocs[i].docID] ELSE <<>>,
                             queryWords, PreviewMaxLength)]]

\* Search(query, topK), docOrder being the order in which docScores is visited
DocumentStorage_Search(ds, query, topK, docOrder) ==
    LET queryWords == tokenizeQuery(ToLower(query))
    IN  IF Len(queryWords) = 0 THEN <<>>
        ELSE BuildResults(ds, SortedDocs(ScoreQuery(ds, queryWords, EmptyMap), docOrder),
                          topK, queryWords)

\* docScores of SearchByPrefix: count / length for the documents of non-zero length
PrefixScores(ds, docsWithPrefix) ==
    LET scored == {d \in DOMAIN docsWithPrefix :
                      ForwardIndex_GetDocumentLength(ds.forwardIndex, d) > 0}
    IN  [d \in scored |->
            Rat(docsWithPrefix[d], ForwardIndex_GetDocumentLength(ds.forwardIndex, d))]

DocumentStorage_SearchByPrefix(ds, prefix, topK, docOrder) ==
    IF TrimSpace(prefix) = <<>> THEN <<>>
    ELSE LET docsWithPrefix == Trie_GetDocumentsForPrefix(ds.trie, ToLower(prefix))
         IN  IF DOMAIN docsWithPrefix = {} THEN <<>>
             ELSE BuildResults(ds, SortedDocs(PrefixScores(ds, docsWithPrefix), docOrder),
                               topK, <<prefix>>)

DocumentStorage_PrefixSearch(ds, prefix) == Trie_StartsWith(ds.trie, prefix)

\* the two bytes \* and the byte *
EscapedAsterisk == <<"\\", "*">>

Asterisk == <<"*">>

\* "___ESCAPED_ASTERISK___"
Placeholder ==
    <<"_", "_", "_", "E", "S", "C", "A", "P", "E", "D", "_",
      "A", "S", "T", "E", "R", "I", "S", "K", "_", "_", "_">>

\* SmartSearch with a slip: the trailing * is looked for in the query as
\* it came, not in the query with the escaped asterisks put aside
SmartSearch_IgnoresEscape(ds, query, topK, docOrder) ==
    IF TrimSpace(query) = <<>> THEN [mode |-> "none", results |-> <<>>]
    ELSE IF HasSuffix(query, Asterisk)
         THEN LET prefix == TrimSpace(TrimSuffix(query, Asterisk))
              IN  IF prefix # <<>>
                  THEN [mode |-> "prefix",
                        results |-> DocumentStorage_SearchByPrefix(ds, prefix, topK, docOrder)]
                  ELSE [mode |-> "none", results |-> <<>>]
         ELSE [mode |-> "exact",
               results |-> DocumentStorage_Search(ds, query, topK, docOrder)]

\* SmartSearch(query, topK): the results, and mode tells which search was
\* delegated to ("none" where neither was)
DocumentStorage_SmartSearch(ds, query, topK, docOrder) ==
    IF TrimSpace(query) = <<>> THEN [mode |-> "none", results |-> <<>>]
    ELSE LET substituted == ReplaceAll(query, EscapedAsterisk, Placeholder)
         IN  IF HasSuffix(substituted, Asterisk)
             THEN LET prefix == TrimSpace(TrimSuffix(substituted, Asterisk))
                  IN  IF prefix # <<>>
                      THEN [mode |-> "prefix",
                            results |-> DocumentStorage_SearchByPrefix(ds, prefix, topK, docOrder)]
                      ELSE [mode |-> "none", results |-> <<>>]
             ELSE [mode |-> "exact",
                   results |-> DocumentStorage_Search(
                                   ds, ReplaceAll(substituted, Placeholder, Asterisk),
                                   topK, docOrder)]

\* the nil *DocumentInfo
NilInfo == [nil |-> TRUE]

\* GetDocumentInfo with a slip: no check that the document exists
GetDocumentInfo_NeverNil(ds, docID) ==
    LET wordCounts == ForwardIndex_GetDocumentWords(ds.forwardIndex, docID)
    IN  [DocID |-> docID,
         Content |-> IF docID \in DOMAIN ds.docIDToDocument
                     THEN ds.docIDToDocument[docID] ELSE <<>>,
         WordCounts |-> wordCounts,
         TotalWords |-> ForwardIndex_GetDocumentLength(ds.forwardIndex, docID),
         UniqueWords |-> Cardinality(DOMAIN wordCounts)]

\* GetDocumentInfo(docID): nil or the DocumentInfo
DocumentStorage_GetDocumentInfo(ds, docID) ==
    IF docID \notin DOMAIN ds.docIDToDocument THEN NilInfo
    ELSE LET wordCounts == ForwardIndex_GetDocumentWords(ds.forwardIndex, docID)
         IN  [DocID |-> docID,
              Content |-> ds.docIDToDocument[docID],
              WordCounts |-> wordCounts,
              TotalWords |-> ForwardIndex_GetDocumentLength(ds.forwardIndex, docID),
              UniqueWords |-> Cardinality(DOMAIN wordCounts)]

DocumentStorage_GetStats(ds) ==
    [TotalDocuments |-> Cardinality(DOMAIN ds.docIDToDocument),
     TotalWords |-> Len(Trie_GetAllWords(ds.trie)),
     TotalDocumentsInIndex |-> ds.totalDocuments]

\* the trie NewWithData rebuilds: for every document in docs, its words
RECURSIVE RebuildTrie(_, _, _, _)
RebuildTrie(t, documents, docs, wordOrder) ==
    IF docs = <<>> THEN t
    ELSE LET wordCounts == documents[Head(docs)]
         IN  RebuildTrie(IndexWords(t, Head(docs), wordCounts,
                                    Restrict(wordOrder, DOMAIN wordCounts)),
                         documents, Tail(docs), wordOrder)

NewWithData(documents, totalDocuments, forwardIndexData, docOrder, wordOrder) ==
    [trie |-> RebuildTrie(Trie_New, forwardIndexData.docIDToDocument,
                          Restrict(docOrder, DOMAIN forwardIndexData.docIDToDocument),
                          wordOrder),
     forwardIndex |-> forwardIndexData,
     docIDToDocument |-> documents,
     totalDocuments |-> totalDocuments]

\* Save: the StorageData written, as json.Unmarshal reads it back; string
\* values pass through the encoder's UTF-8 coercion, integers and the
\* ASCII keys are kept
DocumentStorage_Save(ds) ==
    [Documents |-> [d \in DOMAIN ds.docIDToDocument |-> JSONString(ds.docIDToDocument[d])],
     TotalDocuments |-> ds.totalDocuments,
     ForwardIndex |-> [Documents |-> ds.forwardIndex.docIDToDocument,
                       DocLengths |-> ds.forwardIndex.docIDToDocLength]]

\* Load of a snapshot that parsed
Load(storageData, docOrder, wordOrder) ==
    NewWithData(storageData.Documents, storageData.TotalDocuments,
                NewForwardIndexWithData(storageData.ForwardIndex.Documents,
                                        storageData.ForwardIndex.DocLengths),
                docOrder, wordOrder)

\* the fields of the snapshot: documents, total_documents, and documents
\* and doc_lengths of forward_index
SnapshotFields ==
    {"documents", "total_documents", "forward_index.documents", "forward_index.doc_lengths"}

\* the values a well-typed field of the files of the model holds: the
\* snapshot of a store with the one document d1 = "AB ba"
SnapshotValue ==
    [Documents |-> [d \in {"d1"} |-> <<"A", "B", " ", "b", "a">>],
     TotalDocuments |-> 1,
     ForwardIndex |->
         [Documents |-> [d \in {"d1"} |-> [w \in {<<"a", "b">>, <<"b", "a">>} |-> 1]],
          DocLengths |-> [d \in {"d1"} |-> 2]]]

\* other values of the right JSON type a field can hold: a file Save did
\* not write, or one edited since
SnapshotAltered ==
    [Documents |-> [d \in {"d2"} |-> <<"b">>],
     TotalDocuments |-> 2,
     ForwardIndex |->
         [Documents |-> [d \in {"d1"} |-> [w \in {<<"a", "b">>} |-> 2]],
          DocLengths |-> [d \in {"d1"} |-> 3]]]

\* json.Unmarshal(data, &storageData) of a file that is JSON or not
\* (syntaxOK), holds the fields in present, those in mistyped with a value
\* of another JSON type, those in altered with another value of the right
\* type: an error for a syntax error or a mistyped value; a field that is
\* absent keeps the zero value (a nil map, which reads as the empty map,
\* or 0); a well-typed value is taken as it is
Unmarshal(file) ==
    IF ~file.syntaxOK \/ file.mistyped # {}
    THEN [err |-> TRUE, storageData |-> <<>>]
    ELSE LET from(f) == IF f \in file.altered THEN SnapshotAltered ELSE SnapshotValue
         IN  [err |-> FALSE,
              storageData |->
                  [Documents |-> IF "documents" \in file.present
                                 THEN from("documents").Documents ELSE EmptyMap,
                   TotalDocuments |-> IF "total_documents" \in file.present
                                      THEN from("total_documents").TotalDocuments ELSE 0,
                   ForwardIndex |->
                       [Documents |->
                            IF "forward_index.documents" \in file.present
                            THEN from("forward_index.documents").ForwardIndex.Documents
                            ELSE EmptyMap,
                        DocLengths |->
                            IF "forward_index.doc_lengths" \in file.present
                            THEN from("forward_index.doc_lengths").ForwardIndex.DocLengths
                            ELSE EmptyMap]]]

\* Load(filePath) of a file that can be read: the error, or the store
LoadFile(file, docOrder, wordOrder) ==
    LET parsed == Unmarshal(file)
    IN  IF parsed.err THEN [err |-> TRUE, storage |-> <<>>]
        ELSE [err |-> FALSE, storage |-> Load(parsed.storageData, docOrder, wordOrder)]

(***************************************************************************)
(* The inputs callers pass                                                 *)
(***************************************************************************)
ContentList ==
    << <<"a", "b", " ", "a", "b", " ", "a", "b", "c">>,
       <<"A", "B", " ", "b", "a">>,
       <<"a", " ", "b", "1">>,
       <<"a", "b", "c", "xFF">>,
       <<"b", "a", " ", "b", "a">>,
       <<>>,
       <<"a", "b", "_", "b", "a", " ", "a", "b", "c">> >>

Contents == {ContentList[i] : i \in 1 .. NumContents}

\* the document IDs callers choose
CallerIDs == {"d1", "d2"}

\* the identifiers generateDocID can return
GeneratedIDs == {"doc_u1"}

QueryList ==
    << <<"a", "b">>,
       <<"A", "B", " ", "b", "a">>,
       <<"a", " ", "1">>,
       <<"a", "b", "c">>,
       <<>>,
       <<"b", "a", " ", "b", "a">> >>

Queries == {QueryList[i] : i \in 1 .. NumQueries}

PrefixList ==
    << <<"a">>,
       <<"B">>,
       <<" ">>,
       <<" ", "a", "b">>,
       <<"a", "b">>,
       <<"c">> >>

Prefixes == {PrefixList[i] : i \in 1 .. NumQueries}

\* the queries callers pass to SmartSearch: a prefix query, an escaped
\* asterisk at the end, a bare asterisk, an exact query, a blank one, a
\* prefix to trim, the placeholder itself, an escaped asterisk inside a
\* prefix query
SmartQueries ==
    { <<"a", "b", "*">>,
      <<"a", "b", "\\", "*">>,
      <<" ", "*">>,
      <<"A", "B", " ", "b", "a">>,
      <<" ">>,
      <<" ", "a", " ", "*">>,
      <<"a", "b">> \o Placeholder,
      <<"a", "\\", "*", "b", "*">> }

TopKs == -1 .. MaxTopK

(***************************************************************************)
(* State                                                                   *)
(***************************************************************************)
VARIABLES
    trie,             \* DocumentStorage.trie
    forwardIndex,     \* DocumentStorage.forwardIndex
    docIDToDocument,  \* DocumentStorage.docIDToDocument
    totalDocuments,   \* DocumentStorage.totalDocuments
    issued,           \* the identifiers generateDocID has returned so far
    last              \* the last call on the store: its arguments and result

store == <<trie, forwardIndex, docIDToDocument, totalDocuments>>

vars == <<trie, forwardIndex, docIDToDocument, totalDocuments, issued, last>>

\* the store as a value
DS ==
    [trie |-> trie, forwardIndex |-> forwardIndex,
     docIDToDocument |-> docIDToDocument, totalDocuments |-> totalDocuments]

SetStore(ds) ==
    /\ trie' = ds.trie
    /\ forwardIndex' = ds.forwardIndex
    /\ docIDToDocument' = ds.docIDToDocument
    /\ totalDocuments' = ds.totalDocuments

Call(op, docID, text, topK, result) ==
    [op |-> op, docID |-> docID, text |-> text, topK |-> topK, result |-> result]

\* the document IDs a caller can name: its own and those it was handed
KnownIDs == CallerIDs \cup issued

Init ==
    /\ trie = New.trie
    /\ forwardIndex = New.forwardIndex
    /\ docIDToDocument = New.docIDToDocument
    /\ totalDocuments = New.totalDocuments
    /\ issued = {}
    /\ last = Call("New", "", <<>>, 0, "")

(***************************************************************************)
(* Actions: one per public operation of the store                          *)
(***************************************************************************)
\* AddDocument(content, docID) with a docID the caller chose; a duplicate
\* panics and the caller recovers
AddDocument ==
    \E content \in Contents, docID \in KnownIDs :
        \E wordOrder \in Orders(DOMAIN tokenize(content)) :
            LET r == DocumentStorage_AddDocument(DS, content, docID, "", wordOrder)
            IN  /\ docID \in DOMAIN docIDToDocument
                   \/ Cardinality(DOMAIN docIDToDocument) < MaxDocs
                /\ SetStore(r.ds)
                /\ issued' = issued
                /\ last' = Call("AddDocument", docID, content, 0, r.result)

\* generateDocID with a slip: an identifier can be returned twice
generateDocID_Repeats == GeneratedIDs

\* what generateDocID can return: "doc_" and a random UUID, taken to be an
\* identifier that it never returned before and that no caller chose
\* before it was returned
generateDocID == GeneratedIDs \ issued

\* AddDocument(content, "")
AddDocumentAutoID ==
    \E content \in Contents, generated \in generateDocID :
        \E wordOrder \in Orders(DOMAIN tokenize(content)) :
            LET r == DocumentStorage_AddDocument(DS, content, "", generated, wordOrder)
            IN  /\ Cardinality(DOMAIN docIDToDocument) < MaxDocs
                /\ SetStore(r.ds)
                /\ issued' = issued \cup {generated}
                /\ last' = Call("AddDocument", "", content, 0, r.result)

RemoveDocument ==
    \E docID \in KnownIDs :
        \E wordOrder \in Orders(DOMAIN ForwardIndex_GetDocumentWords(forwardIndex, docID)),
           allWordsOrder \in Orders(Range(Trie_GetAllWords(trie))) :
            LET r == DocumentStorage_RemoveDocument(DS, docID, wordOrder, allWordsOrder)
            IN  /\ SetStore(r.ds)
                /\ issued' = issued
                /\ last' = Call("RemoveDocument", docID, <<>>, 0, r.result)

\* the documents docScores holds for the query: the keys the sort visits
SearchMatches(ds, query) ==
    DOMAIN ScoreQuery(ds, tokenizeQuery(ToLower(query)), EmptyMap)

Search ==
    \E query \in Queries, topK \in TopKs :
        \E docOrder \in Orders(SearchMatches(DS, query)) :
            /\ last' = Call("Search", "", query, topK,
                            DocumentStorage_Search(DS, query, topK, docOrder))
            /\ UNCHANGED <<store, issued>>

SearchByPrefix ==
    \E prefix \in Prefixes, topK \in TopKs :
        \E docOrder \in Orders(DOMAIN Trie_GetDocumentsForPrefix(trie, ToLower(prefix))) :
            /\ last' = Call("SearchByPrefix", "", prefix, topK,
                            DocumentStorage_SearchByPrefix(DS, prefix, topK, docOrder))
            /\ UNCHANGED <<store, issued>>

GetDocumentInfo ==
    \E docID \in KnownIDs :
        /\ last' = Call("GetDocumentInfo", docID, <<>>, 0,
                        DocumentStorage_GetDocumentInfo(DS, docID))
        /\ UNCHANGED <<store, issued>>

GetStats ==
    /\ last' = Call("GetStats", "", <<>>, 0, DocumentStorage_GetStats(DS))
    /\ UNCHANGED <<store, issued>>

SmartSearch ==
    \E query \in SmartQueries, topK \in TopKs :
        \E docOrder \in Orders(DOMAIN docIDToDocument) :
            /\ last' = Call("SmartSearch", "", query, topK,
                            DocumentStorage_SmartSearch(DS, query, topK, docOrder))
            /\ UNCHANGED <<store, issued>>

\* Save to a file followed by Load of that file, as between two runs of
\* the command line
SaveLoad ==
    \E docOrder \in Orders(DOMAIN forwardIndex.docIDToDocument),
       wordOrder \in Orders(Range(Trie_GetAllWords(trie))) :
        /\ SetStore(Load(DocumentStorage_Save(DS), docOrder, wordOrder))
        /\ issued' = issued
        /\ last' = Call("Load", "", <<>>, 0, "")

Next ==
    \/ AddDocument
    \/ AddDocumentAutoID
    \/ RemoveDocument
    \/ Search
    \/ SearchByPrefix
    \/ GetDocumentInfo
    \/ GetStats
    \/ SaveLoad

Spec == Init /\ [][Next]_vars

(***************************************************************************)
(* The store under SmartSearch: documents come and go, and the queries of  *)
(* SmartQueries are asked of every store                                   *)
(***************************************************************************)
NextSmart ==
    \/ AddDocument
    \/ AddDocumentAutoID
    \/ RemoveDocument
    \/ SmartSearch

SpecSmart == Init /\ [][NextSmart]_vars

(***************************************************************************)
(* One text through the store: tokenize and tokenizeQuery are functions of *)
(* the text alone, so they are applied to every short text over a small    *)
(* alphabet and to the texts of ContentList; the text is then added to an  *)
(* empty store, looked up and searched for.                                *)
(***************************************************************************)
\* a lower-case letter, an upper-case letter, a digit, the underscore,
\* white space and punctuation
TextAlphabet == {"a", "B", "1", "_", " ", "."}

RECURSIVE TextsOfLength(_)
TextsOfLength(n) ==
    IF n = 0 THEN {<<>>}
    ELSE {<<c>> \o t : c \in TextAlphabet, t \in TextsOfLength(n - 1)}

Texts == UNION {TextsOfLength(n) : n \in 0 .. MaxTextLen} \cup Range(ContentList)

InitText ==
    /\ trie = New.trie
    /\ forwardIndex = New.forwardIndex
    /\ docIDToDocument = New.docIDToDocument
    /\ totalDocuments = New.totalDocuments
    /\ issued = {}
    /\ \E text \in Texts : last = Call("Text", "", text, 0, "")

\* tokenize(text), tokenizeQuery(text), and tokenizeQuery as Search calls it
TextTokenize ==
    /\ last.op = "Text"
    /\ last' = Call("tokenize", "", last.text, 0,
                    [wordCounts |-> tokenize(last.text),
                     words |-> tokenizeQuery(last.text),
                     queryWords |-> tokenizeQuery(ToLower(last.text))])
    /\ UNCHANGED <<store, issued>>

\* AddDocument(text, docID) on the empty store
TextAddDocument ==
    /\ last.op = "Text"
    /\ \E docID \in CallerIDs :
           \E wordOrder \in Orders(DOMAIN tokenize(last.text)) :
               LET r == DocumentStorage_AddDocument(DS, last.text, docID, "", wordOrder)
               IN  /\ SetStore(r.ds)
                   /\ issued' = issued
                   /\ last' = Call("AddDocument", docID, last.text, 0, r.result)

\* GetDocumentInfo of the document just added
TextGetDocumentInfo ==
    /\ last.op = "AddDocument"
    /\ last' = Call("GetDocumentInfo", last.docID, last.text, 0,
                    DocumentStorage_GetDocumentInfo(DS, last.docID))
    /\ UNCHANGED <<store, issued>>

\* Search with the text of the document just added as the query
TextSearch ==
    /\ last.op = "AddDocument"
    /\ \E topK \in TopKs :
           \E docOrder \in Orders(DOMAIN ScoreQuery(DS, tokenizeQuery(ToLower(last.text)), EmptyMap)) :
               last' = Call("Search", last.docID, last.text, topK,
                            DocumentStorage_Search(DS, last.text, topK, docOrder))
    /\ UNCHANGED <<store, issued>>

NextText ==
    \/ TextTokenize
    \/ TextAddDocument
    \/ TextGetDocumentInfo
    \/ TextSearch

SpecText == InitText /\ [][NextText]_vars

(***************************************************************************)
(* Load of a snapshot file that Save did not necessarily write: any of its *)
(* fields can be absent or of the wrong type, and the file need not be     *)
(* JSON.  The file and what Load returned are kept in last; the variables  *)
(* of the store hold the store Load returned, and stay as New() built them *)
(* when it returned an error.                                              *)
(***************************************************************************)
SnapshotFiles ==
    {[syntaxOK |-> ok, present |-> present, mistyped |-> mistyped, altered |-> altered] :
        ok \in BOOLEAN, present \in SUBSET SnapshotFields,
        mistyped \in SUBSET SnapshotFields, altered \in SUBSET SnapshotFields}

InitLoad ==
    /\ trie = New.trie
    /\ forwardIndex = New.forwardIndex
    /\ docIDToDocument = New.docIDToDocument
    /\ totalDocuments = New.totalDocuments
    /\ issued = {}
    /\ \E file \in SnapshotFiles :
           /\ file.mistyped \subseteq file.present
           /\ file.altered \subseteq file.present \ file.mistyped
           /\ last = Call("File", "", file, 0, "")

LoadSnapshot ==
    /\ last.op = "File"
    /\ \E docOrder \in Orders({"d1"}),
          wordOrder \in Orders({<<"a", "b">>, <<"b", "a">>}) :
           LET r == LoadFile(last.text, docOrder, wordOrder)
           IN  /\ IF r.err THEN UNCHANGED store ELSE SetStore(r.storage)
               /\ last' = Call("Load", "", last.text, 0, IF r.err THEN "error" ELSE "ok")
    /\ issued' = issued

\* GetStats of the store Load returned
LoadGetStats ==
    /\ last.op = "Load" /\ last.result = "ok"
    /\ last' = Call("GetStats", "", last.text, 0, DocumentStorage_GetStats(DS))
    /\ UNCHANGED <<store, issued>>

NextLoad ==
    \/ LoadSnapshot
    \/ LoadGetStats

SpecLoad == InitLoad /\ [][NextLoad]_vars

(***************************************************************************)
(* Notions the properties share                                            *)
(***************************************************************************)
LiveDocs == DOMAIN docIDToDocument

\* the words of a stored text
WordsOf(content) == DOMAIN tokenize(content)

\* the words some text of the model contains
Vocabulary == UNION {WordsOf(c) : c \in Contents}

\* the documents that appear in at least one posting of the trie
PostingDocs == UNION {DOMAIN trie[p].docToWordCount : p \in DOMAIN trie}

\* the live documents whose forward-index vector contains word
DocsContaining(word) ==
    {d \in LiveDocs \cap DOMAIN forwardIndex.docIDToDocument :
        word \in DOMAIN forwardIndex.docIDToDocument[d]}

\* the posting map the forward index prescribes for word
Transpose(word) ==
    [d \in DocsContaining(word) |-> forwardIndex.docIDToDocument[d][word]]

\* the score Search accumulates for document e, as a set: empty when e
\* does not match the query
ScoreOf(ds, query, e) ==
    LET docScores == ScoreQuery(ds, tokenizeQuery(ToLower(query)), EmptyMap)
    IN  IF e \in DOMAIN docScores THEN {docScores[e]} ELSE {}

\* the document IDs of a result list
ResultIDs(results) == {results[i].DocID : i \in DOMAIN results}

Min(a, b) == IF a < b THEN a ELSE b

\* the results are in non-increasing score order
Descending(results) ==
    \A i, j \in DOMAIN results : i < j => ~RatGreater(results[j].Score, results[i].Score)

\* results are the first Min(topK, number of matches) entries of a ranking
\* of docScores: nothing left out beats anything returned
TopOf(results, docScores, topK) ==
    /\ Len(results) = (IF topK > 0 THEN Min(topK, Cardinality(DOMAIN docScores)) ELSE 0)
    /\ Descending(results)
    /\ ResultIDs(results) \subseteq DOMAIN docScores
    /\ Cardinality(ResultIDs(results)) = Len(results)
    /\ \A i \in DOMAIN results : results[i].Score = docScores[results[i].DocID]
    /\ \A d \in DOMAIN docScores \ ResultIDs(results), i \in DOMAIN results :
           ~RatGreater(docScores[d], results[i].Score)

(***************************************************************************)
(* Properties                                                              *)
(***************************************************************************)

\* C1 (as stated): the IDs of the content map, the IDs of the forward index
\* and the IDs that appear in at least one trie posting are the same set,
\* also for documents whose content tokenizes to no words.
C1_ThreeSetsAgree ==
    /\ LiveDocs = DOMAIN forwardIndex.docIDToDocument
    /\ LiveDocs = PostingDocs

\* C1 (amended): the IDs of the content map and of both maps of the forward
\* index are the same set, and the IDs that appear in at least one trie
\* posting are exactly the live documents whose content has at least one word.
C1_SetsAgreeUpToWordlessDocs ==
    /\ LiveDocs = DOMAIN forwardIndex.docIDToDocument
    /\ LiveDocs = DOMAIN forwardIndex.docIDToDocLength
    /\ PostingDocs = {d \in LiveDocs : WordsOf(docIDToDocument[d]) # {}}

C1_Witness ==
    /\ last.op = "AddDocument" /\ last.result \in LiveDocs
    /\ \E d \in LiveDocs : WordsOf(docIDToDocument[d]) = {}
    /\ \E d \in LiveDocs : WordsOf(docIDToDocument[d]) # {}

\* C2: the trie postings are the transpose of the forward index: the posting
\* map of every node is the map document -> count of the live documents whose
\* vector contains the node's word, every word of every vector is a stored
\* word carrying that posting, and GetDocumentFrequency(w) is the number of
\* live documents containing w.
C2_PostingsAreTranspose ==
    /\ \A p \in DOMAIN trie :
           /\ trie[p].docToWordCount = Transpose(p)
           /\ trie[p].containingDocuments = DocsContaining(p)
    /\ \A d \in DOMAIN forwardIndex.docIDToDocument :
           /\ d \in LiveDocs
           /\ \A w \in DOMAIN forwardIndex.docIDToDocument[d] :
                  /\ Trie_Search(trie, w)
                  /\ d \in DOMAIN Trie_GetDocumentsForWord(trie, w)
                  /\ Trie_GetDocumentsForWord(trie, w)[d] = forwardIndex.docIDToDocument[d][w]
    /\ \A w \in Vocabulary \cup DOMAIN trie :
           Trie_GetDocumentFrequency(trie, w) = Cardinality(DocsContaining(w))

C2_Witness ==
    /\ last.op = "RemoveDocument" /\ last.result = TRUE
    /\ \E w \in Vocabulary : Trie_GetDocumentFrequency(trie, w) = 1
    /\ \E w \in Vocabulary : ~Trie_Search(trie, w)

\* C3: the live-document counter equals the size of the content map
\* (GetStats().TotalDocumentsInIndex = GetStats().TotalDocuments) and is
\* never negative, also after removing an unknown ID or the same ID twice.
C3_CounterIsSize ==
    /\ DocumentStorage_GetStats(DS).TotalDocumentsInIndex
           = DocumentStorage_GetStats(DS).TotalDocuments
    /\ totalDocuments = Cardinality(LiveDocs)
    /\ totalDocuments >= 0

C3_Witness ==
    /\ last.op = "RemoveDocument" /\ last.result = FALSE
    /\ totalDocuments = 1

\* C4: the words stored in the trie (GetAllWords, each once, counted by
\* GetStats().TotalWords) are exactly the words occurring in at least one
\* live document, and no node but the root is left with no children while
\* not being the end of a word.
C4_WordsAreLiveWords ==
    /\ Range(Trie_GetAllWords(trie))
           = UNION {WordsOf(docIDToDocument[d]) : d \in LiveDocs}
    /\ DocumentStorage_GetStats(DS).TotalWords
           = Cardinality(UNION {WordsOf(docIDToDocument[d]) : d \in LiveDocs})
    /\ \A w \in Vocabulary :
           w \in Range(Trie_StartsWith(trie, <<>>)) <=> Trie_Search(trie, w)
    /\ \A p \in DOMAIN trie \ {<<>>} : Children(trie, p) # {} \/ trie[p].isEndOfWord

C4_Witness ==
    /\ last.op = "RemoveDocument" /\ last.result = TRUE
    /\ Trie_Search(trie, <<"a", "b">>)
    /\ ~Trie_Search(trie, <<"a", "b", "c">>)
    /\ LiveDocs # {}

\* C5: Load(Save(store)) is the store: the same content map, counter and
\* forward index, and a rebuilt trie with the same words and postings.
C5_RoundTrip ==
    \A docOrder \in Orders(DOMAIN forwardIndex.docIDToDocument),
       wordOrder \in Orders(Range(Trie_GetAllWords(trie))) :
        Load(DocumentStorage_Save(DS), docOrder, wordOrder) = DS

\* C6: AddDocument with a non-empty ID that is already a key of the content
\* map panics and leaves content map, forward index, trie and counter as
\* they were.
C6_DuplicateIDPanics ==
    [][(last'.op = "AddDocument" /\ last'.docID # "" /\ last'.docID \in LiveDocs)
          => (last'.result = "panic" /\ UNCHANGED store)]_vars

C6_Witness ==
    /\ last.op = "AddDocument" /\ last.result = "panic"
    /\ Cardinality(LiveDocs) = 2

\* C7: RemoveDocument of an unknown ID returns false and GetDocumentInfo of
\* an unknown ID returns nil, both leaving the store as it was;
\* RemoveDocument of an existing ID returns true.
C7_UnknownIDIsNoOp ==
    [][/\ last'.op = "RemoveDocument" =>
              IF last'.docID \in LiveDocs THEN last'.result = TRUE
              ELSE last'.result = FALSE /\ UNCHANGED store
       /\ (last'.op = "GetDocumentInfo" /\ last'.docID \notin LiveDocs) =>
              (last'.result = NilInfo /\ UNCHANGED store)]_vars

C7_Witness ==
    /\ last.op = "RemoveDocument" /\ last.result = FALSE
    /\ LiveDocs # {} /\ DOMAIN trie # {<<>>}

\* C8 (as stated): RemoveDocument(d) leaves the Search score of every other
\* live document e unchanged for every term t that does not occur in d.
C8_UnrelatedScoresUnchanged ==
    [][(last'.op = "RemoveDocument" /\ last'.result = TRUE) =>
          \A e \in LiveDocs \ {last'.docID},
             t \in Vocabulary \ WordsOf(docIDToDocument[last'.docID]) :
              ScoreOf(DS', t, e) = ScoreOf(DS, t, e)]_vars

\* C8 (amended): RemoveDocument(d) changes the Search score of another live
\* document e for a term t that does not occur in d only through the
\* live-document counter of the IDF: the score afterwards is the score the
\* store before the call gives with its counter lowered by one (tf(e, t)
\* and df(t) are unchanged, and e matches afterwards iff it matched before).
C8_UnrelatedScoresChangeOnlyByN ==
    [][(last'.op = "RemoveDocument" /\ last'.result = TRUE) =>
          \A e \in LiveDocs \ {last'.docID},
             t \in Vocabulary \ WordsOf(docIDToDocument[last'.docID]) :
              ScoreOf(DS', t, e)
                  = ScoreOf([DS EXCEPT !.totalDocuments = @ - 1], t, e)]_vars

C8_Witness ==
    /\ last.op = "RemoveDocument" /\ last.result = TRUE
    /\ \E e \in LiveDocs, t \in Vocabulary : ScoreOf(DS, t, e) # {}

\* C9: with topK at least the number of live documents, Search(q, topK)
\* returns, each exactly once, precisely the live documents that contain
\* at least one token of q; nothing when q has no tokens or the store is
\* empty, and never a document that is not in the store.
C9_SearchReturnsMatches ==
    (last.op = "Search" /\ last.topK >= Cardinality(LiveDocs)) =>
        /\ ResultIDs(last.result)
               = {d \in LiveDocs :
                     WordsOf(docIDToDocument[d]) \cap Range(tokenizeQuery(ToLower(last.text))) # {}}
        /\ Cardinality(ResultIDs(last.result)) = Len(last.result)
        /\ tokenizeQuery(ToLower(last.text)) = <<>> => last.result = <<>>
        /\ LiveDocs = {} => last.result = <<>>

C9_Witness ==
    /\ last.op = "Search" /\ last.topK >= Cardinality(LiveDocs)
    /\ Len(last.result) = 2

\* C10: Search and SearchByPrefix return their results in non-increasing
\* score order, min(topK, number of matching documents) of them when
\* topK > 0 and none when topK <= 0, and no matching document left out has
\* a score strictly greater than a returned one.
C10_RankedAndTruncated ==
    /\ last.op = "Search" =>
           TopOf(last.result, ScoreQuery(DS, tokenizeQuery(ToLower(last.text)), EmptyMap),
                 last.topK)
    /\ last.op = "SearchByPrefix" =>
           TopOf(last.result,
                 IF TrimSpace(last.text) = <<>> THEN EmptyMap
                 ELSE PrefixScores(DS, Trie_GetDocumentsForPrefix(trie, ToLower(last.text))),
                 last.topK)

C10_Witness ==
    /\ last.op = "Search" /\ last.topK = 1 /\ Len(last.result) = 1
    /\ Cardinality(SearchMatches(DS, last.text)) = 2
    /\ \E d \in SearchMatches(DS, last.text) :
           RatGreater(last.result[1].Score, CHOOSE x \in ScoreOf(DS, last.text, d) : TRUE)

\* the number of times word occurs in live document d, and d's length
CountIn(word, d) == MapGet(tokenize(docIDToDocument[d]), word)

LengthOf(d) ==
    LET wordCounts == tokenize(docIDToDocument[d])
    IN  SumCounts(wordCounts, SetToSeq(DOMAIN wordCounts))

\* the position of document d in a result list, as a set
PositionsOf(results, d) == {i \in DOMAIN results : results[i].DocID = d}

\* C11: for a query of one term t and live documents A and B with
\* count(t, A) / length(A) > count(t, B) / length(B), A's score for t is
\* strictly greater than B's, Search ranks A before B with a strictly
\* greater score, and A is returned whenever topK allows every match.
C11_MoreFrequentScoresHigher ==
    (last.op = "Search" /\ Len(tokenizeQuery(ToLower(last.text))) = 1) =>
        LET t == tokenizeQuery(ToLower(last.text))[1]
        IN  \A A, B \in LiveDocs :
                (/\ LengthOf(A) > 0 /\ LengthOf(B) > 0
                 /\ CountIn(t, A) * LengthOf(B) > CountIn(t, B) * LengthOf(A)) =>
                    /\ RatGreater(calculateTFIDF(DS, A, t), calculateTFIDF(DS, B, t))
                    /\ \A i \in PositionsOf(last.result, A), j \in PositionsOf(last.result, B) :
                           i < j /\ RatGreater(last.result[i].Score, last.result[j].Score)
                    /\ last.topK >= Cardinality(LiveDocs) => PositionsOf(last.result, A) # {}

C11_Witness ==
    /\ last.op = "Search" /\ Len(tokenizeQuery(ToLower(last.text))) = 1
    /\ Len(last.result) = 2
    /\ LET t == tokenizeQuery(ToLower(last.text))[1]
           A == last.result[1].DocID
           B == last.result[2].DocID
       IN  /\ LengthOf(A) = LengthOf(B) + 1
           /\ CountIn(t, A) * LengthOf(B) > CountIn(t, B) * LengthOf(A)

\* C12: every word with a posting has a document frequency of at least 1
\* and at most the live-document counter, so its idf is at least 1; every
\* document Search returns has a strictly positive score, a positive count
\* of some query term and a positive length.
C12_ScoresArePositive ==
    /\ \A p \in DOMAIN trie :
           trie[p].containingDocuments # {} =>
               /\ Trie_GetDocumentFrequency(trie, p) >= 1
               /\ Trie_GetDocumentFrequency(trie, p) <= totalDocuments
               /\ ~RatGreater(Rat(1, 1), IDF(totalDocuments, Trie_GetDocumentFrequency(trie, p)))
    /\ last.op = "Search" =>
           \A i \in DOMAIN last.result :
               /\ RatGreater(last.result[i].Score, Zero)
               /\ last.result[i].DocID \in LiveDocs
               /\ LengthOf(last.result[i].DocID) > 0
               /\ \E t \in Range(tokenizeQuery(ToLower(last.text))) :
                      CountIn(t, last.result[i].DocID) > 0

C12_Witness ==
    /\ last.op = "Search" /\ Len(last.result) = 2
    /\ \E t \in Range(tokenizeQuery(ToLower(last.text))) :
           Trie_GetDocumentFrequency(trie, t) = totalDocuments

\* the maximal runs of letters of s: where they start and where the run
\* that starts at i ends
LetterRunStarts(s) ==
    {i \in 1 .. Len(s) : IsLetter(s[i]) /\ (i = 1 \/ ~IsLetter(s[i - 1]))}

LetterRunEnd(s, i) ==
    CHOOSE j \in i .. Len(s) :
        /\ \A k \in i .. j : IsLetter(s[k])
        /\ j = Len(s) \/ ~IsLetter(s[j + 1])

\* the maximal runs of at least two letters
LongRunStarts(s) == {i \in LetterRunStarts(s) : LetterRunEnd(s, i) > i}

\* those of them that no digit or underscore touches
WholeWordStarts(s) ==
    {i \in LongRunStarts(s) :
        /\ i = 1 \/ ~IsWordChar(s[i - 1])
        /\ LetterRunEnd(s, i) = Len(s) \/ ~IsWordChar(s[LetterRunEnd(s, i) + 1])}

\* the runs that start at the given places, in text order
RunsAt(s, starts) ==
    [k \in 1 .. Cardinality(starts) |->
        LET i == CHOOSE x \in starts : Cardinality({y \in starts : y < x}) = k - 1
        IN  SubSeq(s, i, LetterRunEnd(s, i))]

\* the maximal runs of at least two letters of s that no digit or
\* underscore touches, in text order
WholeWordRuns(s) ==
    CHOOSE runs \in UNION {{RunsAt(text, starts) : starts \in {WholeWordStarts(text)}}
                              : text \in {s}} : TRUE

\* word -> number of occurrences in a sequence of words
Occurrences(words) ==
    [w \in Range(words) |-> Cardinality({k \in DOMAIN words : words[k] = w})]

IsASCIIText(s) == \A i \in DOMAIN s : IsASCII(s[i])

\* C13 (as stated): tokenize yields the case-folded maximal runs of ASCII
\* letters of length >= 2 with their numbers of occurrences, and
\* tokenizeQuery, on the query as Search folds it, yields the same tokens
\* as a sequence in text order.
C13_TokensAreLetterRuns ==
    (last.op = "tokenize" /\ IsASCIIText(last.text)) =>
        LET runs == RunsAt(ToLower(last.text), LongRunStarts(ToLower(last.text)))
        IN  /\ last.result.wordCounts = Occurrences(runs)
            /\ last.result.queryWords = runs

\* C13 (amended): the tokens are the maximal runs of at least two ASCII
\* letters that no digit or underscore touches; tokenize folds the case and
\* counts them, tokenizeQuery yields the runs of the text it is given, in
\* text order with duplicates kept, without folding the case (Search folds
\* the query first, and then both yield the same words); a document with at
\* least one token is found by a Search for its own text.
C13_TokensAreWholeWords ==
    /\ last.op = "tokenize" =>
           LET lower == ToLower(last.text)
               runs == RunsAt(lower, WholeWordStarts(lower))
           IN  /\ last.result.wordCounts = Occurrences(runs)
               /\ last.result.queryWords = runs
               /\ last.result.words = RunsAt(last.text, WholeWordStarts(last.text))
               /\ Range(last.result.queryWords) = DOMAIN last.result.wordCounts
    /\ (last.op = "Search" /\ last.topK >= 1) =>
           ResultIDs(last.result)
               = (IF WholeWordStarts(ToLower(last.text)) # {} THEN {last.docID} ELSE {})

C13_Witness ==
    /\ last.op = "tokenize"
    /\ WholeWordStarts(ToLower(last.text)) # {}
    /\ WholeWordStarts(ToLower(last.text)) # LongRunStarts(ToLower(last.text))

\* the text is made of alphabetic words, pairwise distinct, separated by
\* white space or punctuation
MadeOfDistinctWords(s) ==
    /\ \A i \in DOMAIN s : IsLetter(s[i]) \/ s[i] \in {" ", "."}
    /\ \A i, j \in LetterRunStarts(s) :
           i # j => ToLower(SubSeq(s, i, LetterRunEnd(s, i)))
                        # ToLower(SubSeq(s, j, LetterRunEnd(s, j)))

\* C14: after AddDocument of a text made of n distinct alphabetic words,
\* single-letter words included, GetDocumentInfo reports TotalWords = n and
\* UniqueWords = n.
C14_CountsEveryWord ==
    (last.op = "GetDocumentInfo" /\ MadeOfDistinctWords(last.text)) =>
        /\ last.result.TotalWords = Cardinality(LetterRunStarts(last.text))
        /\ last.result.UniqueWords = Cardinality(LetterRunStarts(last.text))

\* the query ends with a * that no backslash precedes
EndsWithBareAsterisk(q) ==
    /\ Len(q) >= 1 /\ q[Len(q)] = "*"
    /\ Len(q) = 1 \/ q[Len(q) - 1] # "\\"

\* the query with every escaped asterisk written as a plain one: the
\* backslashes that stand before a * are left out
Unescape(q) ==
    LET kept == {i \in DOMAIN q : ~(q[i] = "\\" /\ i < Len(q) /\ q[i + 1] = "*")}
    IN  [k \in 1 .. Cardinality(kept) |->
            q[CHOOSE i \in kept : Cardinality({j \in kept : j < i}) = k - 1]]

ContainsPlaceholder(q) == \E i \in DOMAIN q : HasPrefixAt(q, i, Placeholder)

\* C15: SmartSearch of a blank query is empty; of a query that ends with a
\* * not preceded by a backslash it is SearchByPrefix of the trimmed text
\* before that *, and empty when that text is empty; of any other query it
\* is the exact Search (of the query with its escaped asterisks restored)
\* and never the prefix search.
C15_SmartSearchDispatch ==
    last.op = "SmartSearch" =>
        LET q == last.text
            p == TrimSpace(SubSeq(q, 1, Len(q) - 1))
        IN  /\ TrimSpace(q) = <<>> =>
                   last.result.mode = "none" /\ last.result.results = <<>>
            /\ (TrimSpace(q) # <<>> /\ EndsWithBareAsterisk(q)) =>
                   /\ last.result.mode = (IF p = <<>> THEN "none" ELSE "prefix")
                   /\ p = <<>> => last.result.results = <<>>
                   /\ \E docOrder \in Orders(LiveDocs) :
                          last.result.results
                              = DocumentStorage_SearchByPrefix(DS, p, last.topK, docOrder)
            /\ (TrimSpace(q) # <<>> /\ ~EndsWithBareAsterisk(q)) =>
                   /\ last.result.mode = "exact"
                   /\ ~ContainsPlaceholder(q) =>
                          \E docOrder \in Orders(LiveDocs) :
                              last.result.results
                                  = DocumentStorage_Search(DS, Unescape(q), last.topK, docOrder)

C15_Witness ==
    /\ last.op = "SmartSearch"
    /\ HasSuffix(last.text, EscapedAsterisk)
    /\ last.result.mode = "exact"
    /\ Len(last.result.results) >= 1

\* the words of live document d that start with the case-folded prefix
WordsWithPrefix(prefix, d) ==
    {w \in WordsOf(docIDToDocument[d]) : IsPrefixOf(ToLower(prefix), w)}

\* the occurrences in d of the words that start with the prefix
CountWithPrefix(prefix, d) ==
    SumCounts(tokenize(docIDToDocument[d]), SetToSeq(WordsWithPrefix(prefix, d)))

\* C16: SearchByPrefix of a blank prefix is empty; of a non-blank prefix p,
\* with topK at least the number of live documents, it returns, each once,
\* exactly the live documents with a word that starts with the case-folded
\* p, each with score (occurrences of its words starting with p) / (its
\* length), a value in (0, 1].
C16_PrefixSearchReturnsMatches ==
    last.op = "SearchByPrefix" =>
        /\ TrimSpace(last.text) = <<>> => last.result = <<>>
        /\ (TrimSpace(last.text) # <<>> /\ last.topK >= Cardinality(LiveDocs)) =>
               /\ ResultIDs(last.result)
                      = {d \in LiveDocs : WordsWithPrefix(last.text, d) # {}}
               /\ Cardinality(ResultIDs(last.result)) = Len(last.result)
               /\ \A i \in DOMAIN last.result :
                      LET d == last.result[i].DocID
                      IN  /\ last.result[i].Score
                                 = Rat(CountWithPrefix(last.text, d), LengthOf(d))
                          /\ RatGreater(last.result[i].Score, Zero)
                          /\ ~RatGreater(last.result[i].Score, Rat(1, 1))

C16_Witness ==
    /\ last.op = "SearchByPrefix" /\ last.topK >= Cardinality(LiveDocs)
    /\ Len(last.result) = 1
    /\ Cardinality(LiveDocs) = 2
    /\ Cardinality(WordsWithPrefix(last.text, last.result[1].DocID)) = 2

\* the byte in the other letter case
CasePairs ==
    {<<"A", "a">>, <<"B", "b">>, <<"C", "c">>, <<"D", "d">>, <<"E", "e">>, <<"I", "i">>,
     <<"K", "k">>, <<"P", "p">>, <<"R", "r">>, <<"S", "s">>, <<"T", "t">>}

SwapCaseByte(b) ==
    IF \E pair \in CasePairs : pair[1] = b
    THEN (CHOOSE pair \in CasePairs : pair[1] = b)[2]
    ELSE IF \E pair \in CasePairs : pair[2] = b
    THEN (CHOOSE pair \in CasePairs : pair[2] = b)[1]
    ELSE b

\* the texts that differ from q in letter case only
RECURSIVE CaseVariants(_)
CaseVariants(q) ==
    IF q = <<>> THEN {<<>>}
    ELSE {<<c>> \o rest : c \in {Head(q), SwapCaseByte(Head(q))},
                          rest \in CaseVariants(Tail(q))}

\* the tokens of a text, whatever the letter case it is written in
FoldedTokens(text) == Range(WholeWordRuns(ToLower(text)))

\* C17: Search returns the same documents with the same scores for every
\* query that differs from the one asked in letter case only, and a live
\* document that contains a query term in any letter case is a match.
C17_SearchIgnoresCase ==
    last.op = "Search" =>
        /\ \A v \in CaseVariants(last.text) :
               \E docOrder \in Orders(LiveDocs) :
                   DocumentStorage_Search(DS, v, last.topK, docOrder) = last.result
        /\ last.topK >= Cardinality(LiveDocs) =>
               \A d \in LiveDocs :
                   FoldedTokens(docIDToDocument[d]) \cap FoldedTokens(last.text) # {}
                       => d \in ResultIDs(last.result)

C17_Witness ==
    /\ last.op = "Search"
    /\ last.text # ToLower(last.text)
    /\ Len(last.result) = 2
    /\ \E i \in DOMAIN last.result :
           \E k \in DOMAIN docIDToDocument[last.result[i].DocID] :
               docIDToDocument[last.result[i].DocID][k] \in UpperLetters
    /\ \E i \in DOMAIN last.result :
           docIDToDocument[last.result[i].DocID] = ToLower(docIDToDocument[last.result[i].DocID])

\* C18: AddDocument(content, id) with a non-empty id that is not in the
\* store returns id and raises GetStats().TotalDocuments by exactly one;
\* afterwards GetDocumentInfo(id) reports the content verbatim, the word
\* counts of tokenize(content), their sum as TotalWords and the number of
\* distinct tokens as UniqueWords.
C18_AddDocumentStoresDocument ==
    [][(last'.op = "AddDocument" /\ last'.docID # "" /\ last'.docID \notin LiveDocs) =>
          \E info \in {DocumentStorage_GetDocumentInfo(DS', last'.docID)},
             runs \in {WholeWordRuns(ToLower(last'.text))} :
              /\ last'.result = last'.docID
              /\ DocumentStorage_GetStats(DS').TotalDocuments
                     = DocumentStorage_GetStats(DS).TotalDocuments + 1
              /\ info.DocID = last'.docID
              /\ info.Content = last'.text
              /\ info.WordCounts = tokenize(last'.text)
              /\ info.WordCounts = Occurrences(runs)
              /\ info.TotalWords = Len(runs)
              /\ info.UniqueWords = Cardinality(Range(runs))]_vars

C18_Witness ==
    /\ last.op = "AddDocument" /\ last.docID # "" /\ last.result = last.docID
    /\ Cardinality(LiveDocs) = 2
    /\ DocumentStorage_GetDocumentInfo(DS, last.docID).TotalWords
           > DocumentStorage_GetDocumentInfo(DS, last.docID).UniqueWords
    /\ DocumentStorage_GetDocumentInfo(DS, last.docID).UniqueWords = 2

IsCorruptSnapshot(file) ==
    \/ ~file.syntaxOK
    \/ file.mistyped # {}
    \/ file.present # SnapshotFields

\* C20: Load of a snapshot file that is corrupt or does not match the
\* schema, a file with a required field missing included, returns an error
\* and no store.
C20_CorruptSnapshotIsRejected ==
    (last.op = "Load" /\ IsCorruptSnapshot(last.text)) =>
        /\ last.result = "error"
        /\ DS = New

(***************************************************************************)
(* Directory ingestion: AddDocumentFromPath                                *)
(***************************************************************************)

\* the most entries filepath.Walk hands to the callback in one batch
MaxBatch == 2

\* the allow-list of addDirectory
textExtensions ==
    { <<".", "t", "x", "t">>, <<".", "m", "d">>, <<".", "p", "y">>, <<".", "j", "s">>,
      <<".", "h", "t", "m", "l">>, <<".", "c", "s", "s">>, <<".", "j", "s", "o", "n">>,
      <<".", "x", "m", "l">>, <<".", "c", "s", "v">>, <<".", "t", "s", "v">>,
      <<".", "l", "o", "g">>, <<".", "r", "s", "t">>, <<".", "t", "e", "x">>,
      <<".", "a", "d", "o", "c">>, <<".", "o", "r", "g">>, <<".", "g", "o">> }

\* the paths of a directory in the lexical order in which Walk visits them,
\* each with filepath.Ext of the path and the bytes os.ReadFile yields
DirPaths ==
    << [path |-> "p1.css", ext |-> <<".", "c", "s", "s">>, content |-> ContentList[1]],
       [path |-> "p2.CSS", ext |-> <<".", "C", "S", "S">>, content |-> ContentList[2]],
       [path |-> "p3.bak", ext |-> <<".", "b", "a", "k">>, content |-> ContentList[5]] >>

\* what can be at a path: a readable file, a file os.ReadFile fails on, an
\* entry for which Walk passes an error to the callback, a sub-directory,
\* or nothing
Directories ==
    {d \in [1 .. Len(DirPaths) -> {"file", "unreadable", "walkError", "dir", "absent"}] :
        Cardinality({i \in DOMAIN d : d[i] # "absent"}) <= MaxBatch}

\* the entries Walk hands to the callback, in order
RECURSIVE WalkEntries(_, _)
WalkEntries(d, i) ==
    IF i > Len(DirPaths) THEN <<>>
    ELSE (IF d[i] = "absent" THEN <<>>
          ELSE << [path |-> DirPaths[i].path, ext |-> DirPaths[i].ext,
                   content |-> DirPaths[i].content, kind |-> d[i]] >>)
         \o WalkEntries(d, i + 1)

\* addSingleFile: readFileContent, then AddDocument under the path as ID
addSingleFile(ds, entry, wordOrder) ==
    IF entry.kind # "file"
    THEN [ds |-> ds, docID |-> "", err |-> TRUE, panic |-> FALSE]
    ELSE LET r == DocumentStorage_AddDocument(ds, entry.content, entry.path, "", wordOrder)
         IN  IF r.result = "panic"
             THEN [ds |-> ds, docID |-> "", err |-> FALSE, panic |-> TRUE]
             ELSE [ds |-> r.ds, docID |-> r.result, err |-> FALSE, panic |-> FALSE]

\* the callback of addDirectory, entry after entry, until Walk is through,
\* the callback returns an error, or AddDocument panics
RECURSIVE addDirectory(_, _, _, _)
addDirectory(ds, entries, addedDocs, wordOrder) ==
    IF entries = <<>>
    THEN [ds |-> ds, ids |-> addedDocs, err |-> FALSE, panic |-> FALSE]
    ELSE LET e == Head(entries)
         IN  IF e.kind = "walkError"
             THEN [ds |-> ds, ids |-> addedDocs, err |-> TRUE, panic |-> FALSE]
             ELSE IF e.kind = "dir"
             THEN addDirectory(ds, Tail(entries), addedDocs, wordOrder)
             ELSE IF ToLower(e.ext) \in textExtensions
             THEN LET r == addSingleFile(ds, e, wordOrder)
                  IN  IF r.panic
                      THEN [ds |-> ds, ids |-> addedDocs, err |-> FALSE, panic |-> TRUE]
                      ELSE IF r.err
                      THEN addDirectory(ds, Tail(entries), addedDocs, wordOrder)
                      ELSE addDirectory(r.ds, Tail(entries),
                                        Append(addedDocs, r.docID), wordOrder)
             ELSE addDirectory(ds, Tail(entries), addedDocs, wordOrder)

\* AddDocumentFromPath: target is what os.Stat finds at filePath
DocumentStorage_AddDocumentFromPath(ds, target, wordOrder) ==
    IF target.kind = "missing"
    THEN [ds |-> ds, ids |-> <<>>, err |-> TRUE, panic |-> FALSE]
    ELSE IF target.kind = "dir"
    THEN addDirectory(ds, target.entries, <<>>, wordOrder)
    ELSE LET r == addSingleFile(ds, target.entries[1], wordOrder)
         IN  IF r.panic \/ r.err
             THEN [ds |-> ds, ids |-> <<>>, err |-> r.err, panic |-> r.panic]
             ELSE [ds |-> r.ds, ids |-> <<r.docID>>, err |-> FALSE, panic |-> FALSE]

\* what filePath can name
PathTargets ==
    {[kind |-> "missing", entries |-> <<>>]}
    \cup {[kind |-> "dir", entries |-> WalkEntries(d, 1)] : d \in Directories}
    \cup {[kind |-> "file",
           entries |-> << [path |-> DirPaths[i].path, ext |-> DirPaths[i].ext,
                           content |-> DirPaths[i].content, kind |-> k] >>] :
             i \in DOMAIN DirPaths, k \in {"file", "unreadable"}}

\* a panic ends the program: no call follows it
Running == IF last.op = "AddDocumentFromPath" THEN ~last.result.panic ELSE TRUE

AddDocumentFromPath ==
    /\ Running
    /\ \E target \in PathTargets :
        \E wordOrder \in Orders(UNION {DOMAIN tokenize(e.content) : e \in Range(target.entries)}) :
            LET r == DocumentStorage_AddDocumentFromPath(DS, target, wordOrder)
            IN  /\ SetStore(r.ds)
                /\ issued' = issued
                /\ last' = Call("AddDocumentFromPath", "", target, 0,
                                [ids |-> r.ids, err |-> r.err, panic |-> r.panic])

SpecDir == Init /\ [][AddDocumentFromPath]_vars

\* the paths of a batch that AddDocument can take: listed extension,
\* readable, and not yet a document ID when the file's turn comes
RECURSIVE Ingestible(_, _)
Ingestible(entries, known) ==
    IF entries = <<>> THEN <<>>
    ELSE LET e == Head(entries)
             ok == /\ e.kind = "file"
                   /\ ToLower(e.ext) \in textExtensions
                   /\ e.path \notin known
         IN  (IF ok THEN <<e.path>> ELSE <<>>)
             \o Ingestible(Tail(entries), IF ok THEN known \cup {e.path} ELSE known)

\* C21: a directory batch skips every file that cannot be ingested and
\* goes on: the call returns, the IDs it returns are exactly the files of
\* the batch that can be ingested, in order, those are the documents the
\* call added, and what was in the store before is still there
C21_DirectoryBatchToleratesFailures ==
    [][(last'.op = "AddDocumentFromPath" /\ last'.text.kind = "dir")
       => LET expected == Ingestible(last'.text.entries, DOMAIN docIDToDocument)
          IN  /\ ~last'.result.panic
              /\ last'.result.ids = expected
              /\ DOMAIN docIDToDocument' = DOMAIN docIDToDocument \cup Range(expected)
              /\ \A d \in DOMAIN docIDToDocument : docIDToDocument'[d] = docIDToDocument[d]]_vars

\* a batch in which one file was skipped and a later one was added
C21_SkippedAndWentOn ==
    /\ last.op = "AddDocumentFromPath"
    /\ last.text.kind = "dir"
    /\ Len(last.text.entries) = 2
    /\ last.text.entries[1].kind = "unreadable"
    /\ last.result.ids = <<last.text.entries[2].path>>

(***************************************************************************)
(* Previews of documents longer than the preview window                    *)
(***************************************************************************)

\* the number of long contents callers pass
NumLong == 3

Pad(n, b) == [i \in 1 .. n |-> b]

\* contents longer than the 200 bytes Search asks previews of: a match
\* deep inside, a match at the very start, a match at the very end, and a
\* match behind bytes that are not valid UTF-8
LongContentList ==
    << Pad(60, ".") \o <<"a", "b", " ", "b", "a">> \o Pad(200, "."),
       <<"A", "B", " ">> \o Pad(210, "."),
       Pad(201, ".") \o <<" ", "b", "a">>,
       Pad(20, "xFF") \o Pad(40, ".") \o <<"a", "b">> \o Pad(200, ".") >>

LongContents == {LongContentList[i] : i \in 1 .. NumLong}

AddLongDocument ==
    \E content \in LongContents, docID \in CallerIDs :
        \E wordOrder \in Orders(DOMAIN tokenize(content)) :
            LET r == DocumentStorage_AddDocument(DS, content, docID, "", wordOrder)
            IN  /\ SetStore(r.ds)
                /\ issued' = issued
                /\ last' = Call("AddDocument", docID, content, 0, r.result)

NextPreview == AddLongDocument \/ RemoveDocument \/ Search \/ SearchByPrefix

SpecPreview == Init /\ [][NextPreview]_vars

\* a and b are the same bytes up to the case of letters
SameUpToCase(a, b) ==
    /\ Len(a) = Len(b)
    /\ \A k \in DOMAIN a : \E pair \in CasePairs \cup {<<a[k], a[k]>>} :
           {a[k], b[k]} \subseteq {pair[1], pair[2]}

\* the lowest 0-based position at which a word of W occurs in C up to
\* case, or -1
FirstOccurrence(C, W) ==
    LET hits == {p \in 0 .. (Len(C) - 1) :
                    \E k \in DOMAIN W :
                        /\ W[k] # <<>>
                        /\ p + Len(W[k]) <= Len(C)
                        /\ SameUpToCase(SubSeq(C, p + 1, p + Len(W[k])), W[k])}
    IN  IF hits = {} THEN -1 ELSE CHOOSE p \in hits : \A q \in hits : p <= q

\* the preview as described: the window of L bytes that starts 50 bytes
\* before the first occurrence, with the marks of what was cut
PreviewAsDescribed(C, W, L) ==
    IF Len(C) <= L THEN C
    ELSE LET p == FirstOccurrence(C, W)
             start == IF p - 50 > 0 THEN p - 50 ELSE 0
             end == IF start + L < Len(C) THEN start + L ELSE Len(C)
         IN  (IF start > 0 THEN <<".", ".", ".">> ELSE <<>>)
             \o SubSeq(C, start + 1, end)
             \o (IF end < Len(C) THEN <<".", ".", ".">> ELSE <<>>)

\* the words the preview of the last search is built around
PreviewWords ==
    IF last.op = "Search" THEN tokenizeQuery(ToLower(last.text)) ELSE <<last.text>>

\* C22: every result of Search and SearchByPrefix carries the preview as
\* described for its document's content, the query's words (the prefix as
\* typed in prefix mode) and a window of 200 bytes
C22_PreviewIsWindowAroundFirstMatch ==
    last.op \in {"Search", "SearchByPrefix"}
    => \A i \in DOMAIN last.result :
           last.result[i].Preview
               = PreviewAsDescribed(docIDToDocument[last.result[i].DocID], PreviewWords, 200)

\* the same for Search over contents without invalid bytes
C22_SearchPreviewOfValidText ==
    (last.op = "Search" /\ \A d \in DOMAIN docIDToDocument :
                               \A k \in DOMAIN docIDToDocument[d] : docIDToDocument[d][k] # "xFF")
    => C22_PreviewIsWindowAroundFirstMatch

\* a result whose preview is cut at both ends
C22_WindowInTheMiddle ==
    /\ last.op = "Search"
    /\ \E i \in DOMAIN last.result :
           /\ Len(last.result[i].Preview) = 206
           /\ SubSeq(last.result[i].Preview, 54, 55) = <<"a", "b">>

(***************************************************************************)
(* pkg/trie on its own: any sequence of its operations on any words        *)
(***************************************************************************)

\* the number of words callers pass to the trie
NumTrieWords == 5

\* the most postings the trie holds at a time
MaxPostings == 2

\* "ab", "a", "AB", the empty word, "b", "abc"
TrieWordList ==
    << <<"a", "b">>, <<"a">>, <<"A", "B">>, <<>>, <<"b">>, <<"a", "b", "c">> >>

TrieWords == {TrieWordList[i] : i \in 1 .. NumTrieWords}

TrieInsert ==
    \E word \in TrieWords :
        /\ trie' = Trie_Insert(trie, word)
        /\ last' = Call("Insert", "", word, 0, "")
        /\ UNCHANGED <<forwardIndex, docIDToDocument, totalDocuments, issued>>

TrieRemove ==
    \E word \in TrieWords :
        LET r == Trie_Remove(trie, word)
        IN  /\ trie' = r.trie
            /\ last' = Call("Remove", "", word, 0, r.ok)
            /\ UNCHANGED <<forwardIndex, docIDToDocument, totalDocuments, issued>>

TrieAddDocumentToWord ==
    \E word \in TrieWords, docID \in CallerIDs, count \in {1, 2} :
        /\ Cardinality({pd \in (DOMAIN trie) \X CallerIDs :
                            pd[2] \in trie[pd[1]].containingDocuments}) < MaxPostings
           \/ docID \in DOMAIN Trie_GetDocumentsForWord(trie, word)
        /\ trie' = Trie_AddDocumentToWord(trie, word, docID, count)
        /\ last' = Call("AddDocumentToWord", docID, word, count, "")
        /\ UNCHANGED <<forwardIndex, docIDToDocument, totalDocuments, issued>>

TrieRemoveDocumentFromWord ==
    \E word \in TrieWords, docID \in CallerIDs :
        LET r == Trie_RemoveDocumentFromWord(trie, word, docID)
        IN  /\ trie' = r.trie
            /\ last' = Call("RemoveDocumentFromWord", docID, word, 0, r.ok)
            /\ UNCHANGED <<forwardIndex, docIDToDocument, totalDocuments, issued>>

TrieCleanupEmptyWords ==
    \E allWords \in Orders(Range(Trie_GetAllWords(trie))) :
        /\ trie' = Trie_CleanupEmptyWords(trie, allWords)
        /\ last' = Call("CleanupEmptyWords", "", <<>>, 0, "")
        /\ UNCHANGED <<forwardIndex, docIDToDocument, totalDocuments, issued>>

NextTrie ==
    \/ TrieInsert
    \/ TrieRemove
    \/ TrieAddDocumentToWord
    \/ TrieRemoveDocumentFromWord
    \/ TrieCleanupEmptyWords

SpecTrie == Init /\ [][NextTrie]_vars

\* the stored words: those Search finds, case-folded
StoredWords(t) == {ToLower(w) : w \in {v \in TrieWords : Trie_Search(t, v)}}

\* the postings of every word, as GetDocumentsForWord reports them
PostingsOfWords(t) == [w \in TrieWords |-> Trie_GetDocumentsForWord(t, w)]

\* C23: Search(w) is true exactly when the case-folded w was inserted and
\* not deleted since: Insert makes it true for the inserted word's
\* spellings and changes it for no other word, Remove makes it false for
\* the word it deletes (a stored word without postings) and changes it for
\* no other word, CleanupEmptyWords makes it false only for words without
\* postings, the posting operations never change it; in the empty trie it
\* is false for every word
C23_SearchFollowsInsertAndRemove ==
    /\ [](trie = Trie_New => \A w \in TrieWords : ~Trie_Search(trie, w))
    /\ [][\A w \in TrieWords :
            LET was == Trie_Search(trie, w)
                now == Trie_Search(trie', w)
                same == ToLower(w) = ToLower(last'.text)
                empty == Trie_GetDocumentFrequency(trie, w) = 0
            IN  CASE last'.op = "Insert" -> now = (was \/ same)
                  [] last'.op = "Remove" -> now = (was /\ ~(same /\ empty))
                  [] last'.op = "CleanupEmptyWords" -> (now = was) \/ (was /\ empty)
                  [] OTHER -> now = was]_vars

\* a word was inserted in another spelling and is found, and another word
\* was removed and is not
C23_Witness ==
    /\ last.op = "Remove"
    /\ ~Trie_Search(trie, last.text)
    /\ Trie_Search(trie, <<"A", "B">>)
    /\ last.text # <<>>

\* C24: StartsWith(p) returns, each once, exactly the stored words that
\* have the case-folded p as a prefix
C24_StartsWithReturnsStoredWords ==
    \A p \in TrieWords :
        \E r \in {Trie_StartsWith(trie, p)} :
            /\ Range(r) = {w \in StoredWords(trie) : IsPrefixOf(ToLower(p), w)}
            /\ Cardinality(Range(r)) = Len(r)

\* the same while the empty word is not stored
C24_StartsWithReturnsNonEmptyWords ==
    ~Trie_Search(trie, <<>>) => C24_StartsWithReturnsStoredWords

\* two stored words share a prefix that is itself one of them
C24_Witness ==
    /\ Len(Trie_StartsWith(trie, <<"A">>)) = 2
    /\ Trie_Search(trie, <<"a">>)

\* C25: a node with postings is the end of a word, and no node but the
\* root is without children, without postings and not the end of a word
C25_NodesAreWordsOrLeadToWords ==
    \A p \in DOMAIN trie :
        /\ (trie[p].containingDocuments # {} \/ DOMAIN trie[p].docToWordCount # {})
           => trie[p].isEndOfWord
        /\ p # <<>> =>
               ~(/\ Children(trie, p) = {}
                 /\ trie[p].containingDocuments = {}
                 /\ DOMAIN trie[p].docToWordCount = {}
                 /\ ~trie[p].isEndOfWord)

\* "ab" was removed and its path pruned, while "a" with a posting and "b"
\* stay
C25_Witness ==
    /\ last.op = "Remove"
    /\ last.text = <<"a", "b">>
    /\ <<"a", "b">> \notin DOMAIN trie
    /\ Trie_GetDocumentFrequency(trie, <<"a">>) = 1
    /\ Trie_Search(trie, <<"b">>)

\* C26: AddDocumentToWord on a word that Search does not find (never
\* inserted, or its path ends at a node that is not the end of a word)
\* changes nothing and creates no node
C26_AddDocumentToMissingWordIsNoOp ==
    [][(last'.op = "AddDocumentToWord" /\ ~Trie_Search(trie, last'.text))
       => trie' = trie]_vars

\* a posting was offered to "a" while only "ab" is stored
C26_Witness ==
    /\ last.op = "AddDocumentToWord"
    /\ last.text = <<"a">>
    /\ ~Trie_Search(trie, <<"a">>)
    /\ <<"a">> \in DOMAIN trie

\* C27: AddDocumentToWord a second time with the same arguments changes
\* nothing; whatever count was there, the count given is the count
\* afterwards; and the document is counted once in GetDocumentFrequency
C27_AddDocumentToWordOverwrites ==
    [][(last'.op = "AddDocumentToWord" /\ Trie_Search(trie, last'.text))
       => \E w \in {last'.text}, d \in {last'.docID}, c \in {last'.topK} :
              /\ Trie_AddDocumentToWord(trie', w, d, c) = trie'
              /\ Trie_GetDocumentsForWord(trie', w)
                     = MapPut(Trie_GetDocumentsForWord(trie, w), d, c)
              /\ Trie_GetDocumentFrequency(trie', w)
                     = Cardinality(DOMAIN Trie_GetDocumentsForWord(trie, w) \cup {d})
              /\ \A c2 \in {1, 2} :
                     Trie_GetDocumentsForWord(Trie_AddDocumentToWord(trie', w, d, c2), w)[d] = c2]_vars

\* a word's only posting after AddDocumentToWord gave it the count 2
C27_Witness ==
    /\ last.op = "AddDocumentToWord"
    /\ last.topK = 2
    /\ Trie_GetDocumentsForWord(trie, last.text) = [d \in {last.docID} |-> 2]
    /\ Trie_GetDocumentFrequency(trie, last.text) = 1

\* C28: Remove(w) returns true and deletes w exactly when w is a stored
\* word without postings; otherwise it returns false and changes nothing;
\* every other word stays stored or not stored as it was, with its postings
C28_RemoveReportsDeletion ==
    [][last'.op = "Remove"
       => \E w \in {last'.text} :
              /\ IF Trie_Search(trie, w) /\ Trie_GetDocumentFrequency(trie, w) = 0
                 THEN last'.result = TRUE /\ ~Trie_Search(trie', w)
                 ELSE last'.result = FALSE /\ trie' = trie
              /\ StoredWords(trie') \ {ToLower(w)} = StoredWords(trie) \ {ToLower(w)}
              /\ \A v \in TrieWords :
                     ToLower(v) # ToLower(w)
                     => PostingsOfWords(trie')[v] = PostingsOfWords(trie)[v]]_vars

\* the effect of Remove without the value it returns
C28_RemoveDeletesWordsWithoutPostings ==
    [][last'.op = "Remove"
       => \E w \in {last'.text} :
              /\ IF Trie_Search(trie, w) /\ Trie_GetDocumentFrequency(trie, w) = 0
                 THEN ~Trie_Search(trie', w)
                 ELSE last'.result = FALSE /\ trie' = trie
              /\ StoredWords(trie') \ {ToLower(w)} = StoredWords(trie) \ {ToLower(w)}
              /\ \A v \in TrieWords :
                     ToLower(v) # ToLower(w)
                     => PostingsOfWords(trie')[v] = PostingsOfWords(trie)[v]]_vars

(***************************************************************************)
(* pkg/index on its own: any sequence of AddDocument and RemoveDocument    *)
(***************************************************************************)

\* the number of words callers use as keys of wordCounts
NumIndexKeys == 3

\* "ab", "AB", "b", "abc"
IndexKeyList == << <<"a", "b">>, <<"A", "B">>, <<"b">>, <<"a", "b", "c">> >>

IndexKeys == {IndexKeyList[i] : i \in 1 .. NumIndexKeys}

\* the wordCounts maps callers pass: some of the words, each once or twice
IndexWordCounts == UNION {[ws -> {1, 2}] : ws \in SUBSET IndexKeys}

IndexAddDocument ==
    \E docID \in CallerIDs, wordCounts \in IndexWordCounts :
        /\ forwardIndex' = ForwardIndex_AddDocument(forwardIndex, docID, wordCounts)
        /\ last' = Call("AddDocument", docID, wordCounts, 0, "")
        /\ UNCHANGED <<trie, docIDToDocument, totalDocuments, issued>>

IndexRemoveDocument ==
    \E docID \in CallerIDs :
        LET r == ForwardIndex_RemoveDocument(forwardIndex, docID)
        IN  /\ forwardIndex' = r.index
            /\ last' = Call("RemoveDocument", docID, <<>>, 0, r.ok)
            /\ UNCHANGED <<trie, docIDToDocument, totalDocuments, issued>>

SpecIndex == Init /\ [][IndexAddDocument \/ IndexRemoveDocument]_vars

\* the sum of the counts of a map, as the number of (word, occurrence) pairs
TotalOf(m) ==
    Cardinality(UNION {{<<w, k>> : k \in 1 .. m[w]} : w \in DOMAIN m})

\* C29: the word-count map and the length map of the forward index have
\* the same documents and each length is the sum of the document's counts;
\* AddDocument makes the given map the document's entry, whatever was
\* there, and touches no other document; RemoveDocument of an absent ID
\* returns false and changes nothing
C29_ForwardIndexMapsAgree ==
    /\ [](/\ DOMAIN forwardIndex.docIDToDocument = DOMAIN forwardIndex.docIDToDocLength
          /\ \A d \in DOMAIN forwardIndex.docIDToDocument :
                 forwardIndex.docIDToDocLength[d] = TotalOf(forwardIndex.docIDToDocument[d]))
    /\ [][/\ last'.op = "AddDocument"
             => /\ forwardIndex'.docIDToDocument[last'.docID] = last'.text
                /\ DOMAIN forwardIndex'.docIDToDocument
                       = DOMAIN forwardIndex.docIDToDocument \cup {last'.docID}
                /\ \A d \in DOMAIN forwardIndex.docIDToDocument \ {last'.docID} :
                       forwardIndex'.docIDToDocument[d] = forwardIndex.docIDToDocument[d]
          /\ (last'.op = "RemoveDocument"
              /\ last'.docID \notin DOMAIN forwardIndex.docIDToDocument)
             => last'.result = FALSE /\ forwardIndex' = forwardIndex]_vars

\* both documents are in the index, and the one AddDocument stored last
\* has the single word "b", twice
C29_Witness ==
    /\ last.op = "AddDocument"
    /\ DOMAIN last.text = {<<"b">>}
    /\ DOMAIN forwardIndex.docIDToDocument = CallerIDs
    /\ forwardIndex.docIDToDocLength[last.docID] = 2

\* what the reads return for an unknown document and for length 0
IndexReadsOfUnknown ==
    /\ \A d \in CallerIDs \ DOMAIN forwardIndex.docIDToDocument : \A w \in IndexKeys :
           /\ ForwardIndex_GetWordCount(forwardIndex, d, w) = 0
           /\ ForwardIndex_GetDocumentLength(forwardIndex, d) = 0
           /\ ForwardIndex_GetTF(forwardIndex, d, w) = Zero
           /\ ForwardIndex_GetDocumentWords(forwardIndex, d) = EmptyMap
    /\ \A d \in CallerIDs, w \in IndexKeys :
           ForwardIndex_GetDocumentLength(forwardIndex, d) = 0
           => ForwardIndex_GetTF(forwardIndex, d, w) = Zero

\* C30: for an unknown document the reads return 0 and the empty map, GetTF
\* is 0 when the length is 0, and for the document AddDocument just stored
\* GetWordCount(d, w) is the count given under the key w (0 if none) and
\* GetTF(d, w) is that count over the document's length
C30_ReadsReturnWhatWasStored ==
    /\ IndexReadsOfUnknown
    /\ last.op = "AddDocument"
       => \A w \in IndexKeys :
              /\ ForwardIndex_GetWordCount(forwardIndex, last.docID, w) = MapGet(last.text, w)
              /\ TotalOf(last.text) > 0
                 => ForwardIndex_GetTF(forwardIndex, last.docID, w)
                        = Rat(MapGet(last.text, w), TotalOf(last.text))

\* the same with the count looked up under the lower-cased word
C30_ReadsReturnWhatWasStoredFolded ==
    /\ IndexReadsOfUnknown
    /\ last.op = "AddDocument"
       => \A w \in IndexKeys :
              /\ ForwardIndex_GetWordCount(forwardIndex, last.docID, w)
                     = MapGet(last.text, ToLower(w))
              /\ TotalOf(last.text) > 0
                 => ForwardIndex_GetTF(forwardIndex, last.docID, w)
                        = Rat(MapGet(last.text, ToLower(w)), TotalOf(last.text))

(***************************************************************************)
(* Frame of the store's mutations                                          *)
(***************************************************************************)

\* the postings of document e in trie t: the count at every node that
\* holds e
PostingsOfDocument(t, e) ==
    [p \in {q \in DOMAIN t : e \in t[q].containingDocuments \cup DOMAIN t[q].docToWordCount}
        |-> MapGet(t[p].docToWordCount, e)]

\* what the store holds of document e
HeldOf(ds, e) ==
    [content |-> ds.docIDToDocument[e],
     words |-> ForwardIndex_GetDocumentWords(ds.forwardIndex, e),
     length |-> ForwardIndex_GetDocumentLength(ds.forwardIndex, e),
     known |-> e \in DOMAIN ds.forwardIndex.docIDToDocument,
     postings |-> PostingsOfDocument(ds.trie, e)]

\* C31: in every step a live document stays live and keeps its content,
\* its word counts and length in the forward index and its postings in
\* the trie, unless the step is the RemoveDocument of that very document:
\* AddDocument and RemoveDocument of d leave every other document alone,
\* and a document does not change between its AddDocument and its
\* RemoveDocument
C31_MutationsLeaveOtherDocumentsAlone ==
    [][\A e \in LiveDocs :
          (last'.op = "RemoveDocument" /\ last'.docID = e)
          \/ (e \in LiveDocs' /\ HeldOf(DS', e) = HeldOf(DS, e))]_vars

\* a document was removed and a document with postings is still there
C31_Witness ==
    /\ last.op = "RemoveDocument"
    /\ last.result = TRUE
    /\ \E e \in LiveDocs : DOMAIN PostingsOfDocument(trie, e) # {}

(***************************************************************************)
(* Removal and reuse of a document ID                                      *)
(***************************************************************************)

\* document d appears nowhere: in no search result, no document info, no
\* posting of the trie and no entry of the forward index
NowhereToBeFound(d) ==
    /\ \A topK \in TopKs :
           /\ \A query \in Queries : \A docOrder \in Orders(SearchMatches(DS, query)) :
                  d \notin ResultIDs(DocumentStorage_Search(DS, query, topK, docOrder))
           /\ \A prefix \in Prefixes :
                  \A docOrder \in Orders(DOMAIN Trie_GetDocumentsForPrefix(trie, ToLower(prefix))) :
                      d \notin ResultIDs(DocumentStorage_SearchByPrefix(DS, prefix, topK, docOrder))
           /\ \A query \in SmartQueries : \A docOrder \in Orders(DOMAIN docIDToDocument) :
                  d \notin ResultIDs(DocumentStorage_SmartSearch(DS, query, topK, docOrder).results)
    /\ DocumentStorage_GetDocumentInfo(DS, d) = NilInfo
    /\ DOMAIN PostingsOfDocument(trie, d) = {}
    /\ d \notin DOMAIN forwardIndex.docIDToDocument \cup DOMAIN forwardIndex.docIDToDocLength

\* what the store holds of a document with this content and nothing else
HeldOfContent(content) ==
    [content |-> content,
     words |-> tokenize(content),
     length |-> TotalOf(tokenize(content)),
     known |-> TRUE,
     postings |-> [w \in DOMAIN tokenize(content) |-> tokenize(content)[w]]]

\* C32: a document that is not live, removed ones included, is returned
\* by no Search, SearchByPrefix or SmartSearch and has no document info;
\* AddDocument under such an ID succeeds, and then the store holds of it
\* exactly the new content, its word counts and the postings of its words;
\* the words of the trie are the words of the live documents, none is left
\* from a removed one; and a query finds a document exactly when one of
\* its words is in the document's present content
C32_RemovedDocumentIsGoneAndIDReusable ==
    /\ [](/\ \A d \in KnownIDs \ LiveDocs : NowhereToBeFound(d)
          /\ Range(Trie_GetAllWords(trie))
                 = UNION {WordsOf(docIDToDocument[e]) : e \in LiveDocs}
          /\ \A query \in Queries, e \in LiveDocs :
                 e \in SearchMatches(DS, query)
                 <=> Range(tokenizeQuery(ToLower(query))) \cap WordsOf(docIDToDocument[e]) # {})
    /\ [][(last'.op = "AddDocument" /\ last'.docID # "" /\ last'.docID \notin LiveDocs)
          => /\ last'.result = last'.docID
             /\ HeldOf(DS', last'.docID) = HeldOfContent(last'.text)]_vars

\* the generated ID is live again under AddDocument: it was issued,
\* removed, and added anew with a content that has words
C32_Witness ==
    /\ last.op = "AddDocument"
    /\ last.docID \in GeneratedIDs
    /\ last.result = last.docID
    /\ WordsOf(last.text) # {}

\* C33: for every query that does not end with an unescaped *, SmartSearch
\* returns what Search returns for the query with each backslash-asterisk
\* written as an asterisk and nothing else changed, the queries that
\* contain the text of the placeholder included
C33_ExactModeDelegatesToSearch ==
    (last.op = "SmartSearch" /\ ~EndsWithBareAsterisk(last.text))
    => \E docOrder \in Orders(LiveDocs) :
           last.result.results
               = DocumentStorage_Search(DS, Unescape(last.text), last.topK, docOrder)

\* the same for the queries without the text of the placeholder
C33_ExactModeWithoutPlaceholder ==
    ~ContainsPlaceholder(last.text) => C33_ExactModeDelegatesToSearch

\* an exact-mode query with an escaped asterisk found a document
C33_Witness ==
    /\ last.op = "SmartSearch"
    /\ ~EndsWithBareAsterisk(last.text)
    /\ Unescape(last.text) # last.text
    /\ Len(last.result.results) >= 1

\* the file matches the schema of the snapshot: it is JSON and holds every
\* field with a value of the field's type
IsSchemaValid(file) ==
    /\ file.syntaxOK
    /\ file.mistyped = {}
    /\ file.present = SnapshotFields

\* the invariants of the store
StoreInvariants ==
    /\ LiveDocs = DOMAIN forwardIndex.docIDToDocument
    /\ totalDocuments = Cardinality(LiveDocs)
    /\ \A d \in DOMAIN forwardIndex.docIDToDocument :
           /\ d \in DOMAIN forwardIndex.docIDToDocLength
           /\ forwardIndex.docIDToDocLength[d] = TotalOf(forwardIndex.docIDToDocument[d])
    /\ \A p \in DOMAIN trie :
           trie[p].docToWordCount
               = [d \in {e \in DOMAIN forwardIndex.docIDToDocument :
                            p \in DOMAIN forwardIndex.docIDToDocument[e]}
                    |-> forwardIndex.docIDToDocument[d][p]]
    /\ \A d \in DOMAIN forwardIndex.docIDToDocument :
           \A w \in DOMAIN forwardIndex.docIDToDocument[d] : Trie_Search(trie, w)

\* C34: the store a successful Load returns satisfies the invariants of the
\* store, whatever snapshot matching the schema the file holds: content IDs
\* equal forward-index IDs, the counter is the number of documents, every
\* length is the sum of the word counts, the trie postings are the
\* transpose of the forward index
C34_LoadedStoreSatisfiesInvariants ==
    (last.op = "Load" /\ last.result = "ok" /\ IsSchemaValid(last.text))
    => StoreInvariants

\* the same for the files that hold the values Save wrote
C34_LoadedStoreOfSavedSnapshot ==
    (last.op = "Load" /\ last.result = "ok" /\ IsSchemaValid(last.text)
        /\ last.text.altered = {})
    => StoreInvariants

\* whatever the well-typed values, the rebuilt trie is the transpose of the
\* forward index Load was given
C34_RebuiltTrieIsTranspose ==
    (last.op = "Load" /\ last.result = "ok")
    => /\ \A p \in DOMAIN trie :
              trie[p].docToWordCount
                  = [d \in {e \in DOMAIN forwardIndex.docIDToDocument :
                               p \in DOMAIN forwardIndex.docIDToDocument[e]}
                       |-> forwardIndex.docIDToDocument[d][p]]
       /\ \A d \in DOMAIN forwardIndex.docIDToDocument :
              \A w \in DOMAIN forwardIndex.docIDToDocument[d] : Trie_Search(trie, w)

\* C35: Insert is idempotent and preserves postings: inserting a stored
\* word leaves the trie as it was (stored words, nodes, every posting, those
\* of the word included); inserting a new word adds that word alone, without
\* postings, keeps every node there was, and leaves the existing words and
\* their postings unchanged; a second Insert of the same word changes
\* nothing
C35_InsertIsIdempotentAndPreservesPostings ==
    [][last'.op = "Insert" =>
          LET word == last'.text
          IN  /\ Trie_Search(trie, word) => trie' = trie
              /\ StoredWords(trie') = StoredWords(trie) \cup {ToLower(word)}
              /\ \A p \in DOMAIN trie :
                     /\ p \in DOMAIN trie'
                     /\ trie'[p].containingDocuments = trie[p].containingDocuments
                     /\ trie'[p].docToWordCount = trie[p].docToWordCount
                     /\ p # ToLower(word) => trie'[p] = trie[p]
              /\ \A p \in DOMAIN trie' \ DOMAIN trie :
                     trie'[p].containingDocuments = {}
              /\ \A w \in TrieWords :
                     (Trie_Search(trie, w) \/ ToLower(w) # ToLower(word))
                     => PostingsOfWords(trie')[w] = PostingsOfWords(trie)[w]
              /\ ~Trie_Search(trie, word) => Trie_GetDocumentsForWord(trie', word) = EmptyMap
              /\ Trie_Insert(trie', word) = trie']_vars

\* a word that carries a posting was inserted again
C35_Witness ==
    /\ last.op = "Insert"
    /\ Trie_GetDocumentFrequency(trie, last.text) >= 1
    /\ Cardinality(StoredWords(trie)) >= 2

\* C36: RemoveDocumentFromWord(w, d) returns true exactly when w is a
\* stored word whose postings contain d; it then deletes that posting alone:
\* w stays stored, also with no posting left, its postings for other
\* documents and the postings of all other words are unchanged, no node is
\* added or deleted; when it returns false the trie is unchanged
C36_RemoveDocumentFromWordDeletesOnePosting ==
    [][last'.op = "RemoveDocumentFromWord" =>
          LET w == last'.text
              d == last'.docID
              had == Trie_Search(trie, w) /\ d \in DOMAIN Trie_GetDocumentsForWord(trie, w)
          IN  /\ last'.result = had
              /\ ~had => trie' = trie
              /\ had =>
                    /\ Trie_Search(trie', w)
                    /\ Trie_GetDocumentsForWord(trie', w)
                           = MapDelete(Trie_GetDocumentsForWord(trie, w), d)
                    /\ Trie_GetDocumentFrequency(trie', w)
                           = Trie_GetDocumentFrequency(trie, w) - 1
                    /\ StoredWords(trie') = StoredWords(trie)
                    /\ DOMAIN trie' = DOMAIN trie
                    /\ \A p \in DOMAIN trie : p # ToLower(w) => trie'[p] = trie[p]
                    /\ \A v \in TrieWords :
                           ToLower(v) # ToLower(w)
                           => PostingsOfWords(trie')[v] = PostingsOfWords(trie)[v]]_vars

\* the posting of one document was deleted from a word that keeps the
\* posting of another document
C36_Witness ==
    /\ last.op = "RemoveDocumentFromWord" /\ last.result = TRUE
    /\ Trie_Search(trie, last.text)
    /\ Trie_GetDocumentFrequency(trie, last.text) = 1
    /\ last.docID \notin DOMAIN Trie_GetDocumentsForWord(trie, last.text)

\* the last posting of a word was deleted and the word is still stored
C36_WitnessLastPosting ==
    /\ last.op = "RemoveDocumentFromWord" /\ last.result = TRUE
    /\ Trie_Search(trie, last.text)
    /\ Trie_GetDocumentFrequency(trie, last.text) = 0

\* C37: in every reachable trie, the document set and the count map of
\* every node have the same keys, so GetDocumentFrequency(w) is the number
\* of entries of GetDocumentsForWord(w) for every word w, and for a word
\* that is not stored the one is 0 and the other empty
C37_DocumentSetAndCountMapAgree ==
    /\ \A p \in DOMAIN trie :
           trie[p].containingDocuments = DOMAIN trie[p].docToWordCount
    /\ \A w \in TrieWords :
           /\ Trie_GetDocumentFrequency(trie, w)
                  = Cardinality(DOMAIN Trie_GetDocumentsForWord(trie, w))
           /\ ~Trie_Search(trie, w) =>
                  /\ Trie_GetDocumentFrequency(trie, w) = 0
                  /\ Trie_GetDocumentsForWord(trie, w) = EmptyMap

\* a posting was deleted, a word carries a posting, a word has none and a
\* word is not stored
C37_Witness ==
    /\ last.op = "RemoveDocumentFromWord" /\ last.result = TRUE
    /\ \E w \in TrieWords : Trie_GetDocumentFrequency(trie, w) >= 1
    /\ \E w \in TrieWords :
           Trie_Search(trie, w) /\ Trie_GetDocumentFrequency(trie, w) = 0
    /\ \E w \in TrieWords : ~Trie_Search(trie, w)
====
